---- MODULE Spec2Model ----
(***************************************************************************)
(* Verification model of libasampo / audiothread.                          *)
(*                                                                         *)
(*  - DrumkitSequence / TimeSpec       (libasampo/src/sequences)           *)
(*  - DrumkitSequenceRenderer          (libasampo/src/sequences/render.rs) *)
(*  - PulledSource, SymphoniaSource    (audiothread/src/source)            *)
(*  - SourceGroup                      (audiothread/src/source/mod.rs)     *)
(*  - the drum render thread, producer of a PulledSource                   *)
(*                    (libasampo/src/sequences/drumkit_render_thread.rs)   *)
(*                                                                         *)
(* Each part has its own specification (SpecRenderer, SpecSource, ...);    *)
(* the variables of the other parts stay at their initial values.          *)
(*                                                                         *)
(* Frame quantities that are f64 in the source (step lengths,              *)
(* step_frames_remain) are kept in fixed point: one frame is               *)
(* TicksPerFrame ticks.  The tempo, swing and rate values the model uses   *)
(* are chosen so that every such quantity is a whole number of ticks.      *)
(***************************************************************************)
EXTENDS Integers, Sequences, FiniteSets, TLC

VARIABLES
    \* ---- DrumkitSequenceRenderer (render.rs:171-181) ----
    sequence,                     \* DrumkitSequence owned by the renderer
    samples,                      \* Vec<HashMap<DrumkitLabel, Vec<f32>>>
    samples_current_generation,   \* usize (0-based index into samples)
    sample_loaders,               \* Vec<ThreadedPromise<..>>
    current_step,                 \* Option<usize>
    step_frames_remain,           \* Option<f64>, in ticks
    active_sounds,                \* Vec<ActiveSound>
    mixbuffer,                    \* Option<Vec<f32>>: its length
    \* ---- observations of the last renderer call ----
    panicked,                     \* why the last call panicked, or NoPanic
    render_ret,                   \* value returned by the last render()
    log_dropped,                  \* "Dropped {n} sample generation(s)" of the last call
    next_table_id,                \* serial number given to the next loaded sample table
    num_ops,                      \* number of operations performed so far
    last_event_step,              \* step of the last event since init_sequence, or None
    frames_since_init,            \* frames rendered since init_sequence
    events_since_init,            \* events returned since init_sequence
    retimed_since_init,           \* the timespec was changed since init_sequence
    last_op                       \* name of the last operation

rvars == <<sequence, samples, samples_current_generation, sample_loaders,
           current_step, step_frames_remain, active_sounds, mixbuffer,
           panicked, render_ret, log_dropped, next_table_id, num_ops,
           last_event_step, frames_since_init, events_since_init, retimed_since_init>>

VARIABLES
    \* ---- one Source of the mixer (source/mod.rs:72-79) ----
    source_kind,                  \* variant of the Source enum
    stream_state,                 \* StreamState of the source
    source_dropped,               \* the mixer has dropped the source
    last_mix,                     \* the last mix_to_same_spec call: state before, buffer given, buffer after
    last_update,                  \* the last update call: state and pending flag before
    \* ---- PulledSource (pulled.rs:62-71) ----
    pull_req_pending,             \* bool
    buffer_rx,                    \* content of the ring shared with the producer
    pull_request_chan,            \* requests sent and not yet received
    pull_response_chan,           \* replies sent and not yet received
    unanswered,                   \* requests sent for which no reply was sent
    \* ---- SymphoniaSource (symphonia.rs:30-37) ----
    reader,                       \* packets the format reader has yet to deliver
    buffer,                       \* content of the ring of decoded, unmixed samples
    file,                         \* the packets of the file the source was made for
    delivered,                    \* the samples the source has added to output buffers so far
    \* ---- drum render thread (drumkit_render_thread.rs:50-59, 136) ----
    pc,                           \* position in the thread's loop
    paused,                       \* State.paused
    shutdown_request,             \* shutdown_request.is_some()
    shutdown_age,                 \* loop passes (of 2 ms sleep each) since the shutdown request
    warned,                       \* "Message received after shutdown request" was logged
    num_vacant,                   \* num_vacant of the pull request being served
    control_chan,                 \* control messages sent and not yet received
    control_tx_alive              \* the client still holds the control sender

svars == <<source_kind, stream_state, source_dropped, last_mix, last_update,
           pull_req_pending, buffer_rx, pull_request_chan, pull_response_chan,
           unanswered, reader, buffer, file, delivered,
           pc, paused, shutdown_request, shutdown_age, warned, num_vacant,
           control_chan, control_tx_alive>>

VARIABLES
    \* ---- SourceGroup (source/mod.rs:120-128) ----
    group_spec,                   \* AudioSpec of the group and of its sources
    output_spec,                  \* AudioSpec the group was created for and mixes to
    sources,                      \* Vec<Source>
    samplerate_conv_done_once,    \* bool
    pre_conv_buf,                 \* Vec<f32>
    post_conv_overflow_buf,       \* content of the overflow ring
    group_panicked,               \* why the last call on the group panicked, or NoPanic
    last_group_mix,               \* the last mix_to_given_spec call: group before, buffer given and after
    last_add                      \* the last add_source call: the source given and whether it returned Ok

gvars == <<group_spec, output_spec, sources, samplerate_conv_done_once, pre_conv_buf,
           post_conv_overflow_buf, group_panicked, last_group_mix, last_add>>

\* the mixer (audiothread/src/lib.rs: threadloop) and its client
VARIABLES
    command_rx,                   \* the command channel: messages sent and not yet received
    command_tx_alive,             \* the client still holds the sender
    mixer_pc,                     \* position of the mixer thread in threadloop
    messages,                     \* recv_all: the messages collected so far
    groups,                       \* the source groups by AudioSpec
    stream_created,               \* threadloop local
    stream_asked_connect,         \* threadloop local
    sent,                         \* every message the client sent, in order
    applied,                      \* every message the dispatch loop matched, in order
    last_batch,                   \* the last result of recv_all and whether a write callback followed
    loop_exit,                    \* how the main loop was left
    teardown_log,                 \* what the thread did after the loop, in order
    num_retained_out              \* sources the periodic cleanup removed since the last DropAll

mvars == <<command_rx, command_tx_alive, mixer_pc, messages, groups, stream_created,
           stream_asked_connect, sent, applied, last_batch, loop_exit, teardown_log,
           num_retained_out>>

\* one DrumkitSequence under edit (sequences/mod.rs)
VARIABLES
    drumkit_sequence,             \* the DrumkitSequence
    last_edit,                    \* the last edit call and its arguments
    last_step_length              \* the last step(n).length_in_samples(rate) call and its result

qvars == <<drumkit_sequence, last_edit, last_step_length>>

\* one interleaved sample stream under the iterator adapters (audiothread/src/ext.rs)
VARIABLES
    ext_in,                       \* the stream the run of doublings started from
    ext_out,                      \* the stream as it is now
    ext_last                      \* the last adapter applied, its arguments and its input

\* one BaseSampleSet (samplesets/mod.rs)
VARIABLES
    sample_set,                   \* BaseSampleSet.samples: Sample -> Entry
    last_result                   \* the last call, its sample and its result

\* one ExportJob::perform call with a progress channel (samplesets/export.rs)
VARIABLES
    export_set,                   \* the samples of the sample set to export
    export_fails,                 \* the samples whose export returns Err
    create_dirs_ok,               \* io.create_dirs succeeds
    perform_pc,                   \* position of the caller's thread in perform
    worker_pc,                    \* the closure handed to rayon::spawn
    items_processed,              \* the samples the ProgressAdaptor has counted
    outcome,                      \* what the closure of try_for_each returned for each sample
    rayon_rx,                     \* errors sent on rayon_tx and not yet received
    rayon_tx_alive,               \* the closure still holds rayon_tx
    prev_completed,               \* prev_completed of the polling loop
    job_tx                        \* the ExportJobMessages sent on tx, in order

jvars == <<export_set, export_fails, create_dirs_ok, perform_pc, worker_pc, items_processed,
           outcome, rayon_rx, rayon_tx_alive, prev_completed, job_tx>>

xvars == <<ext_in, ext_out, ext_last, sample_set, last_result, jvars>>

vars == <<rvars, last_op, svars, gvars, mvars, qvars, xvars>>

----------------------------------------------------------------------------
(* Generic helpers *)

Min(a, b) == IF a < b THEN a ELSE b

Max(a, b) == IF a < b THEN b ELSE a

Range(s) == {s[i] : i \in 1..Len(s)}

\* Option::None for the usize / f64 options of the renderer
None == -1

\* A Rust panic ends the call.  The model records which index or unwrap
\* failed: "sequence" (step(0) of an empty sequence, % by a zero length),
\* "uninitialized" (unwrap of a None field), "mixbuffer" (slice of the mix
\* buffer out of range), "samples" (generation, label or sample slice out
\* of range)
NoPanic == "none"

RECURSIVE SelectSeqBy(_, _)
\* Vec::retain / Iterator::filter over a sequence, keeping order
SelectSeqBy(s, keep) ==
    IF s = <<>> THEN <<>>
    ELSE IF keep[Head(s)] THEN <<Head(s)>> \o SelectSeqBy(Tail(s), keep)
         ELSE SelectSeqBy(Tail(s), keep)

----------------------------------------------------------------------------
(* Bounds of the model *)

\* fixed-point scale of the f64 frame quantities
TicksPerFrame == 8

\* number of renderer operations in one run
MaxOps == 6

\* number of sample tables that may be loaded in one run
MaxLoads == 2

\* number of async loaders in flight at once
MaxLoaders == 1

\* the labels the model uses, out of the sixteen of DrumkitLabel
Labels == {"BassDrum", "SnareDrum"}

\* amplitudes used by step edits
Amplitudes == {1}

\* steps addressed by the step edits of the renderer
EditSteps == {0}

\* tempi, in beats per minute
Tempi == {30, 120}

\* swing values are kept in halves; the renderer is given 0.0 and 0.5
SwingDen == 2

Swings == {0, 1}

\* lengths (in f32 samples) of the buffers handed to render()
BufferLens == {2, 8}

\* output sample rate of the renderer under test
output_samplerate == 12

----------------------------------------------------------------------------
(* sequences/time.rs *)

\* NoteLength::reciprocal
reciprocal(note) == IF note = "Eighth" THEN 8 ELSE 16

\* TimeSpec::samples_per_note, in ticks:
\*   seconds_per_beat = 1 / (bpm / 60)
\*   notes_per_beat   = (1 / lower) * reciprocal
\*   samples_per_note = seconds_per_beat / notes_per_beat * rate
samples_per_note(timespec, rate, note) ==
    (TicksPerFrame * 60 * rate * timespec.lower) \div (timespec.bpm * reciprocal(note))

----------------------------------------------------------------------------
(* sequences/mod.rs: DrumkitSequence *)

RECURSIVE EmptySteps(_)
EmptySteps(n) == IF n = 0 THEN <<>> ELSE <<(<<>>)>> \o EmptySteps(n - 1)

TimeSpecOf(bpm, upper, lower, swing) ==
    [bpm |-> bpm, upper |-> upper, lower |-> lower, swing |-> swing]

\* DrumkitSequence::new
DrumkitSequence_new(timespec, step_base_length) ==
    [timespec |-> timespec,
     step_base_length |-> step_base_length,
     steps |-> EmptySteps(timespec.upper * (reciprocal(step_base_length) \div timespec.lower))]

\* Default for DrumkitSequence
DrumkitSequence_default == DrumkitSequence_new(TimeSpecOf(120, 4, 4, 0), "Sixteenth")

\* StepSequenceOps::len
len(seq) == Len(seq.steps)

\* a step lookup that also answers for the index one past the end
step_is_some_inclusive(seq, n) == n <= Len(seq.steps)

\* StepSequenceOps::step(n) is Some exactly when this holds
step_is_some(seq, n) == n < Len(seq.steps)

\* a step length with the swing of odd and even steps swapped
length_in_samples_48k_flipped(seq, n) ==
    LET base_len_in_samples == samples_per_note(seq.timespec, 48000, seq.step_base_length)
        sign == IF n % 2 = 0 THEN -1 ELSE 1
    IN  (base_len_in_samples * (SwingDen + sign * seq.timespec.swing)) \div SwingDen

\* StepInfo.length_in_samples_48k of step n, in ticks
length_in_samples_48k(seq, n) ==
    LET base_len_in_samples == samples_per_note(seq.timespec, 48000, seq.step_base_length)
        sign == IF n % 2 = 0 THEN 1 ELSE -1
    IN  (base_len_in_samples * (SwingDen + sign * seq.timespec.swing)) \div SwingDen

\* StepInfo::length_in_samples of step n, in ticks
length_in_samples(seq, n, rate) ==
    (length_in_samples_48k(seq, n) * rate) \div 48000

\* StepInfo.triggers of step n
triggers(seq, n) == seq.steps[n + 1]

\* StepSequenceOps::set_timespec
set_timespec(seq, spec) == [seq EXCEPT !.timespec = spec]

\* a set_len that starts over with n empty steps
set_len_emptied(seq, n) ==
    IF n > 0 THEN [seq EXCEPT !.steps = EmptySteps(n)] ELSE seq

\* StepSequenceOps::set_len
set_len(seq, n) ==
    IF n > 0
    THEN IF n < Len(seq.steps) THEN [seq EXCEPT !.steps = SubSeq(seq.steps, 1, n)]
         ELSE [seq EXCEPT !.steps = seq.steps \o EmptySteps(n - Len(seq.steps))]
    ELSE seq

\* StepSequenceOps::clear
clear(seq) == [seq EXCEPT !.steps = [i \in 1..Len(seq.steps) |-> <<>>]]

\* a clear_step that empties every step
clear_step_all(seq, n) == [seq EXCEPT !.steps = [i \in 1..Len(seq.steps) |-> <<>>]]

\* StepSequenceOps::clear_step
clear_step(seq, n) ==
    IF n < Len(seq.steps) THEN [seq EXCEPT !.steps[n + 1] = <<>>] ELSE seq

\* the retain(|trigger| trigger.label != label) of the step edits
without_label(v, label) ==
    SelectSeqBy(v, [t \in Range(v) |-> t.label # label])

\* a set_step_trigger that keeps the triggers the label already has
set_step_trigger_pushing(seq, n, label, amp) ==
    IF n < Len(seq.steps)
    THEN [seq EXCEPT !.steps[n + 1] = @ \o <<[label |-> label, amplitude |-> amp]>>]
    ELSE seq

\* StepSequenceOps::set_step_trigger
set_step_trigger(seq, n, label, amp) ==
    IF n < Len(seq.steps)
    THEN [seq EXCEPT !.steps[n + 1] =
              without_label(@, label) \o <<[label |-> label, amplitude |-> amp]>>]
    ELSE seq

\* StepSequenceOps::unset_step_trigger
unset_step_trigger(seq, n, label) ==
    IF n < Len(seq.steps)
    THEN [seq EXCEPT !.steps[n + 1] = without_label(@, label)]
    ELSE seq

----------------------------------------------------------------------------
(* sequences/render.rs: DrumkitSequenceRenderer *)

\* A sample table is [id, data]: data maps each loaded label to the length
\* (in f32 samples, stereo interleaved) of its converted audio; id is the
\* serial number of the load that produced the table and stands for the
\* audio content.
EmptyData == [l \in {} |-> 0]

\* the renderer as one record (the `self` of the methods)
self ==
    [sequence |-> sequence,
     samples |-> samples,
     samples_current_generation |-> samples_current_generation,
     sample_loaders |-> sample_loaders,
     current_step |-> current_step,
     step_frames_remain |-> step_frames_remain,
     active_sounds |-> active_sounds,
     mixbuffer |-> mixbuffer]

\* DrumkitSequenceRenderer::new
DrumkitSequenceRenderer_new ==
    [sequence |-> DrumkitSequence_default,
     samples |-> <<[id |-> 0, data |-> EmptyData]>>,
     samples_current_generation |-> 0,
     sample_loaders |-> <<>>,
     current_step |-> None,
     step_frames_remain |-> None,
     active_sounds |-> <<>>,
     mixbuffer |-> None]

\* the ActiveSound pushed for trigger t on table tbl, which is generation gen.
\* origin records the table the sound started on (history field, not in the source).
ActiveSound(t, tbl, gen) ==
    [label |-> t.label,
     samples_generation |-> gen,
     amplitude |-> t.amplitude,
     offset_in_frames |-> 0,
     num_frames |-> tbl.data[t.label] \div 2,
     origin |-> tbl.id]

\* the sounds started by a step: one per trigger whose label is in the table
sounds_of_triggers(trigs, tbl, gen) ==
    LET present == SelectSeqBy(trigs, [t \in Range(trigs) |-> t.label \in DOMAIN tbl.data])
    IN  [i \in 1..Len(present) |-> ActiveSound(present[i], tbl, gen)]

\* load_sequence: Some(info), or a panic when seq.step(0) is None
load_sequence(seq, rate, tbl, gen) ==
    IF ~step_is_some(seq, 0)
    THEN [panic |-> "sequence"]
    ELSE [panic |-> NoPanic,
          step_frames_remain |-> length_in_samples(seq, 0, rate),
          active_sounds |-> sounds_of_triggers(triggers(seq, 0), tbl, gen),
          mixbuffer_cap |-> (4 * samples_per_note(seq.timespec, rate, seq.step_base_length))
                                \div TicksPerFrame]

\* init_sequence
init_sequence(r) ==
    IF r.samples_current_generation >= Len(r.samples)
    THEN [r |-> r, panic |-> "samples"]
    ELSE LET loaded_seq == load_sequence(r.sequence, output_samplerate,
                                         r.samples[r.samples_current_generation + 1],
                                         r.samples_current_generation)
         IN  IF loaded_seq.panic # NoPanic
             THEN [r |-> r, panic |-> loaded_seq.panic]
             ELSE [r |-> [r EXCEPT !.current_step = 0,
                                   !.step_frames_remain = loaded_seq.step_frames_remain,
                                   !.active_sounds = loaded_seq.active_sounds,
                                   !.mixbuffer = loaded_seq.mixbuffer_cap],
                   panic |-> NoPanic]

\* a variant of the renumbering that leaves the index as it was: with it the
\* sounds designate a later table after a drain (C2 depends on the renumbering)
renumbered_generation_kept(g, num_stale_gens) == g

\* generation index of a sound after num_stale_gens generations were drained
renumbered_generation(g, num_stale_gens) == g - num_stale_gens

RECURSIVE MinGeneration(_)
MinGeneration(snds) ==
    IF Len(snds) = 1 THEN snds[1].samples_generation
    ELSE Min(snds[1].samples_generation, MinGeneration(Tail(snds)))

\* the num_stale_gens of unload_stale_samples
num_stale_gens(snds, cur) ==
    IF snds # <<>> THEN MinGeneration(snds) ELSE cur

\* unload_stale_samples; dropped is the count written to the log
unload_stale_samples(r) ==
    LET n == num_stale_gens(r.active_sounds, r.samples_current_generation)
    IN  IF n > 0
        THEN [r |-> [r EXCEPT
                       !.samples = SubSeq(@, Min(n, Len(@)) + 1, Len(@)),
                       !.samples_current_generation = @ - n,
                       !.active_sounds =
                           [i \in 1..Len(@) |->
                               [@[i] EXCEPT !.samples_generation =
                                   renumbered_generation(@, n)]]],
              dropped |-> n]
        ELSE [r |-> r, dropped |-> 0]

RECURSIVE poll_loaders(_, _)
\* the retain_mut of check_sample_loaders: Pending loaders stay, Ready ones
\* push their table, Failed ones are dropped
poll_loaders(loaders, r) ==
    IF loaders = <<>> THEN r
    ELSE LET loader == Head(loaders)
             r1 == CASE loader.state = "Pending" ->
                            [r EXCEPT !.sample_loaders = Append(@, loader)]
                     [] loader.state = "Ready" ->
                            [r EXCEPT !.samples = Append(@, loader.table),
                                      !.samples_current_generation = @ + 1]
                     [] OTHER -> r
         IN  poll_loaders(Tail(loaders), r1)

\* check_sample_loaders
check_sample_loaders(r) ==
    LET generation_pre == r.samples_current_generation
        polled == poll_loaders(r.sample_loaders, [r EXCEPT !.sample_loaders = <<>>])
    IN  IF polled.samples_current_generation > generation_pre
        THEN unload_stale_samples(polled)
        ELSE [r |-> polled, dropped |-> 0]

\* one sound can be mixed for `frames` frames without indexing out of range:
\* samples[generation], .get(label).unwrap(), the slice of the sample data
sound_in_range(s, frames, smp) ==
    /\ s.samples_generation >= 0
    /\ s.samples_generation < Len(smp)
    /\ s.label \in DOMAIN smp[s.samples_generation + 1].data
    /\ (s.offset_in_frames + frames) * 2 <= smp[s.samples_generation + 1].data[s.label]

\* frames mixed from sound s in a cycle of frames_this_cycle frames
frames_of_sound(s, frames_this_cycle) ==
    Min(frames_this_cycle, s.num_frames - s.offset_in_frames)

\* the slice mixbuffer[..(frames_this_cycle * 2)] is in range
mixbuffer_in_range(frames_this_cycle, cap) == frames_this_cycle * 2 <= cap

\* a step length that forgets what remained of the step before
carried_dropped(remain, length) == length

\* *step_frames_remain += step.length_in_samples(self.output_samplerate)
carried(remain, length) == remain + length

\* a step advance that does not wrap around
next_step_of_unwrapped(step, seq) == step + 1

\* *current_step = (*current_step + 1) % self.sequence.len()
next_step_of(step, seq) == (step + 1) % len(seq)

RECURSIVE render_loop(_, _)
\* the `while frames_to_write > 0` loop of render.  st is the loop state,
\* r the renderer (sequence, samples and mixbuffer do not change in the loop)
render_loop(st, r) ==
    IF st.frames_to_write <= 0 THEN st
    ELSE
    LET frames_this_cycle == Min(st.frames_to_write, st.step_frames_remain \div TicksPerFrame)
        snds == st.active_sounds
    IN
    IF ~mixbuffer_in_range(frames_this_cycle, r.mixbuffer)
    THEN [st EXCEPT !.panic = "mixbuffer"]
    ELSE IF \E i \in 1..Len(snds) :
              \/ snds[i].num_frames < snds[i].offset_in_frames
              \/ ~sound_in_range(snds[i], frames_of_sound(snds[i], frames_this_cycle), r.samples)
    THEN [st EXCEPT !.panic = "samples"]
    ELSE
    LET mixed == [i \in 1..Len(snds) |->
                     [snds[i] EXCEPT !.offset_in_frames =
                         @ + frames_of_sound(snds[i], frames_this_cycle)]]
        retained == SelectSeqBy(mixed,
                       [s \in Range(mixed) |-> s.offset_in_frames < s.num_frames])
        frames_written == st.frames_written + frames_this_cycle
        remain == st.step_frames_remain - frames_this_cycle * TicksPerFrame
        to_write == st.frames_to_write - frames_this_cycle
    IN
    IF remain < TicksPerFrame
    THEN IF len(r.sequence) = 0
         THEN [st EXCEPT !.panic = "sequence"]
         ELSE IF r.samples_current_generation >= Len(r.samples)
         THEN [st EXCEPT !.panic = "samples"]
         ELSE
         LET next_step == next_step_of(st.current_step, r.sequence)
             tbl == r.samples[r.samples_current_generation + 1]
             some == step_is_some(r.sequence, next_step)
             sounds == IF some
                       THEN retained \o sounds_of_triggers(triggers(r.sequence, next_step),
                                                           tbl, r.samples_current_generation)
                       ELSE retained
             event == [labels |-> [i \in 1..Len(sounds) |-> sounds[i].label],
                       step |-> next_step,
                       time |-> frames_written]
         IN  render_loop(
                 [st EXCEPT !.frames_to_write = to_write,
                            !.frames_written = frames_written,
                            !.current_step = next_step,
                            !.step_frames_remain =
                                IF some
                                THEN carried(remain, length_in_samples(r.sequence, next_step,
                                                                       output_samplerate))
                                ELSE remain,
                            !.active_sounds = sounds,
                            !.events = Append(@, event)], r)
    ELSE render_loop(
             [st EXCEPT !.frames_to_write = to_write,
                        !.frames_written = frames_written,
                        !.step_frames_remain = remain,
                        !.active_sounds = retained], r)

\* render(buffer) for a buffer of buffer_len f32 samples:
\* [r: the renderer afterwards, panic, ret: the returned pair, dropped]
render(r0, buffer_len) ==
    LET checked == check_sample_loaders(r0)
        inited == IF checked.r.current_step = None
                  THEN init_sequence(checked.r)
                  ELSE [r |-> checked.r, panic |-> NoPanic]
        r == inited.r
        first_events ==
            IF checked.r.current_step = None /\ inited.panic = NoPanic
            THEN <<[labels |-> [i \in 1..Len(r.active_sounds) |-> r.active_sounds[i].label],
                    step |-> 0,
                    time |-> 0]>>
            ELSE <<>>
    IN  IF inited.panic # NoPanic
        THEN [r |-> r, panic |-> inited.panic, ret |-> [len |-> 0, events |-> <<>>],
              dropped |-> checked.dropped]
        ELSE IF r.step_frames_remain = None \/ r.current_step = None \/ r.mixbuffer = None
        THEN [r |-> r, panic |-> "uninitialized", ret |-> [len |-> 0, events |-> <<>>],
              dropped |-> checked.dropped]
        ELSE LET fin == render_loop([frames_to_write |-> buffer_len \div 2,
                                     frames_written |-> 0,
                                     current_step |-> r.current_step,
                                     step_frames_remain |-> r.step_frames_remain,
                                     active_sounds |-> r.active_sounds,
                                     events |-> first_events,
                                     panic |-> NoPanic], r)
             IN  [r |-> [r EXCEPT !.current_step = fin.current_step,
                                  !.step_frames_remain = fin.step_frames_remain,
                                  !.active_sounds = fin.active_sounds],
                  panic |-> fin.panic,
                  ret |-> [len |-> buffer_len, events |-> fin.events],
                  dropped |-> checked.dropped]

\* reset_sequence
reset_sequence(r) ==
    [r EXCEPT !.current_step = None, !.step_frames_remain = None, !.mixbuffer = None]

\* set_sequence
set_sequence(r, seq) == reset_sequence([r EXCEPT !.sequence = seq])

\* set_tempo
set_tempo(r, bpm) ==
    [r EXCEPT !.sequence = set_timespec(@, [@.timespec EXCEPT !.bpm = bpm])]

\* set_swing
set_swing(r, swing) ==
    [r EXCEPT !.sequence = set_timespec(@, [@.timespec EXCEPT !.swing = swing])]

\* a load_samples that appends the table without counting the generation
load_samples_uncounted(r, tbl) == [r EXCEPT !.samples = Append(@, tbl)]

\* load_samples: the table the loader produced becomes a new generation
load_samples(r, tbl) ==
    [r EXCEPT !.samples = Append(@, tbl), !.samples_current_generation = @ + 1]

\* load_samples_async: a worker thread is spawned, its promise is queued
load_samples_async(r, tbl) ==
    [r EXCEPT !.sample_loaders = Append(@, [state |-> "Pending", table |-> tbl])]

----------------------------------------------------------------------------
(* Inputs of the renderer operations *)

\* what the loaders handed to load_samples / load_samples_async produce:
\* a bass drum of 2 frames, or a bass drum of 6 frames with an empty snare
\* drum (the table the renderer starts with has no sample at all)
LoaderData ==
    { [l \in {"BassDrum"} |-> 4],
      [l \in {"BassDrum", "SnareDrum"} |-> IF l = "BassDrum" THEN 12 ELSE 0] }

\* the sequences handed to set_sequence: three sixteenth-note steps (a 3/4
\* bar cut by set_len) with a trigger on the first and on the last
InputSequences ==
    { set_step_trigger(
          set_step_trigger(
              set_len(DrumkitSequence_new(TimeSpecOf(120, 3, 4, 0), "Sixteenth"), 3),
              0, "BassDrum", 1),
          2, "SnareDrum", 1) }

----------------------------------------------------------------------------
(* The renderer as a state machine: one action per public operation, plus *)
(* the completion of a loader's worker thread                             *)

\* assignment of the renderer's fields from a record
Becomes(r) ==
    /\ sequence' = r.sequence
    /\ samples' = r.samples
    /\ samples_current_generation' = r.samples_current_generation
    /\ sample_loaders' = r.sample_loaders
    /\ current_step' = r.current_step
    /\ step_frames_remain' = r.step_frames_remain
    /\ active_sounds' = r.active_sounds
    /\ mixbuffer' = r.mixbuffer

NoRender == [len |-> None, events |-> <<>>]

\* the renderer right after DrumkitSequenceRenderer::new
RendererNew ==
    /\ sequence = DrumkitSequenceRenderer_new.sequence
    /\ samples = DrumkitSequenceRenderer_new.samples
    /\ samples_current_generation = DrumkitSequenceRenderer_new.samples_current_generation
    /\ sample_loaders = DrumkitSequenceRenderer_new.sample_loaders
    /\ current_step = DrumkitSequenceRenderer_new.current_step
    /\ step_frames_remain = DrumkitSequenceRenderer_new.step_frames_remain
    /\ active_sounds = DrumkitSequenceRenderer_new.active_sounds
    /\ mixbuffer = DrumkitSequenceRenderer_new.mixbuffer
    /\ panicked = NoPanic
    /\ render_ret = NoRender
    /\ log_dropped = 0
    /\ next_table_id = 1
    /\ num_ops = 0
    /\ last_event_step = None
    /\ frames_since_init = 0
    /\ events_since_init = 0
    /\ retimed_since_init = FALSE

\* no call was made on a source yet
NoCall == [state |-> "none", pending |-> FALSE, given |-> <<>>, out |-> <<>>]

\* no source, no producer thread
SourceIdle ==
    /\ source_kind = "none"
    /\ stream_state = "none"
    /\ source_dropped = FALSE
    /\ last_mix = NoCall
    /\ last_update = NoCall
    /\ pull_req_pending = FALSE
    /\ buffer_rx = <<>>
    /\ pull_request_chan = <<>>
    /\ pull_response_chan = <<>>
    /\ unanswered = 0
    /\ reader = <<>>
    /\ buffer = <<>>
    /\ file = <<>>
    /\ delivered = <<>>
    /\ pc = "none"
    /\ paused = TRUE
    /\ shutdown_request = FALSE
    /\ shutdown_age = 0
    /\ warned = FALSE
    /\ num_vacant = 0
    /\ control_chan = <<>>
    /\ control_tx_alive = FALSE

\* no source group
GroupIdle ==
    /\ group_spec = [samplerate |-> 0, channels |-> 0]
    /\ output_spec = [samplerate |-> 0, channels |-> 0]
    /\ sources = <<>>
    /\ samplerate_conv_done_once = FALSE
    /\ pre_conv_buf = <<>>
    /\ post_conv_overflow_buf = <<>>
    /\ group_panicked = NoPanic
    /\ last_group_mix = [sources_len |-> 0, overflow |-> <<>>, pre_conv_buf |-> <<>>,
                         done_once |-> FALSE, given |-> <<>>, out |-> <<>>]
    /\ last_add = [source |-> <<>>, ok |-> TRUE]

\* no edit and no length call yet
NoEdit == [op |-> "none", n |-> 0, label |-> "none", amp |-> 0]

NoStepLength == [n |-> 0, rate |-> 0, some |-> FALSE, length |-> 0]

\* no sequence under edit
SequenceIdle ==
    /\ drumkit_sequence = DrumkitSequence_default
    /\ last_edit = NoEdit
    /\ last_step_length = NoStepLength

\* no adapter applied yet
NoExt == [op |-> "none", k |-> 0, from |-> 0, to |-> 0, src |-> <<>>, panicked |-> FALSE]

\* no stream under the iterator adapters
ExtIdle ==
    /\ ext_in = <<>>
    /\ ext_out = <<>>
    /\ ext_last = NoExt

\* no sample set call yet
NoResult == [op |-> "none", sample |-> "none", ok |-> TRUE, value |-> "none"]

\* the samples a set is asked about
Samples == {"s1", "s2"}

\* a sample the HashMap has no entry for
Absent == [present |-> FALSE, label |-> "none", audio_hash |-> "none"]

\* BaseSampleSet::new: no entries
BaseSampleSet_new == [s \in Samples |-> Absent]

\* no sample set in use
SampleSetIdle ==
    /\ sample_set = BaseSampleSet_new
    /\ last_result = NoResult

\* no export job
ExportIdle ==
    /\ export_set = {}
    /\ export_fails = {}
    /\ create_dirs_ok = TRUE
    /\ perform_pc = "none"
    /\ worker_pc = "none"
    /\ items_processed = {}
    /\ outcome = [s \in Samples |-> "none"]
    /\ rayon_rx = <<>>
    /\ rayon_tx_alive = FALSE
    /\ prev_completed = 0
    /\ job_tx = <<>>

\* no mixer thread
MixerIdle ==
    /\ command_rx = <<>>
    /\ command_tx_alive = FALSE
    /\ mixer_pc = "none"
    /\ messages = <<>>
    /\ groups = <<>>
    /\ stream_created = FALSE
    /\ stream_asked_connect = FALSE
    /\ sent = <<>>
    /\ applied = <<>>
    /\ last_batch = [result |-> "none", batch |-> <<>>, written |-> FALSE]
    /\ loop_exit = "none"
    /\ teardown_log = <<>>
    /\ num_retained_out = 0

InitRenderer ==
    /\ MixerIdle
    /\ SequenceIdle
    /\ ExtIdle
    /\ SampleSetIdle
    /\ RendererNew
    /\ ExportIdle
    /\ last_op = "new"
    /\ SourceIdle
    /\ GroupIdle

\* an operation other than render: it returns nothing and logs nothing
Plain(r, name) ==
    /\ panicked = NoPanic
    /\ num_ops < MaxOps
    /\ num_ops' = num_ops + 1
    /\ Becomes(r)
    /\ last_op' = name
    /\ retimed_since_init' = (retimed_since_init \/ r.sequence.timespec # sequence.timespec)
    /\ UNCHANGED <<panicked, render_ret, log_dropped, last_event_step, frames_since_init,
                   events_since_init>>
    /\ UNCHANGED <<svars, gvars, mvars, qvars, xvars>>

\* the step of the last event since the sequence was initialised, as a
\* render call finds it: None when the call initialises the sequence
previous_event_step == IF current_step = None THEN None ELSE last_event_step

\* frames rendered and events returned since the sequence was
\* initialised, as a render call finds them
previous_frames == IF current_step = None THEN 0 ELSE frames_since_init

previous_events == IF current_step = None THEN 0 ELSE events_since_init

Render(buffer_len) ==
    /\ panicked = NoPanic
    /\ num_ops < MaxOps
    /\ num_ops' = num_ops + 1
    /\ LET res == render(self, buffer_len)
       IN  /\ panicked' = res.panic
           /\ IF res.panic # NoPanic
              THEN /\ UNCHANGED <<sequence, samples, samples_current_generation,
                                  sample_loaders, current_step, step_frames_remain,
                                  active_sounds, mixbuffer>>
                   /\ render_ret' = NoRender
                   /\ UNCHANGED <<last_event_step, frames_since_init, events_since_init,
                                  retimed_since_init>>
              ELSE /\ Becomes(res.r)
                   /\ render_ret' = res.ret
                   /\ last_event_step' =
                          IF res.ret.events # <<>>
                          THEN res.ret.events[Len(res.ret.events)].step
                          ELSE previous_event_step
                   /\ frames_since_init' = previous_frames + buffer_len \div 2
                   /\ events_since_init' = previous_events + Len(res.ret.events)
                   /\ retimed_since_init' = (current_step # None /\ retimed_since_init)
           /\ log_dropped' = res.dropped
    /\ last_op' = "render"
    /\ UNCHANGED next_table_id
    /\ UNCHANGED <<svars, gvars, mvars, qvars, xvars>>

ResetSequence ==
    /\ Plain(reset_sequence(self), "reset_sequence")
    /\ UNCHANGED next_table_id

SetSequence(seq) ==
    /\ Plain(set_sequence(self, seq), "set_sequence")
    /\ UNCHANGED next_table_id

SetTempo(bpm) ==
    /\ Plain(set_tempo(self, bpm), "set_tempo")
    /\ UNCHANGED next_table_id

SetSwing(swing) ==
    /\ Plain(set_swing(self, swing), "set_swing")
    /\ UNCHANGED next_table_id

SequenceClear ==
    /\ Plain([self EXCEPT !.sequence = clear(@)], "sequence_clear")
    /\ UNCHANGED next_table_id

SequenceClearStep(n) ==
    /\ Plain([self EXCEPT !.sequence = clear_step(@, n)], "sequence_clear_step")
    /\ UNCHANGED next_table_id

SequenceSetStepTrigger(n, label, amp) ==
    /\ Plain([self EXCEPT !.sequence = set_step_trigger(@, n, label, amp)],
             "sequence_set_step_trigger")
    /\ UNCHANGED next_table_id

SequenceUnsetStepTrigger(n, label) ==
    /\ Plain([self EXCEPT !.sequence = unset_step_trigger(@, n, label)],
             "sequence_unset_step_trigger")
    /\ UNCHANGED next_table_id

LoadSamples(data) ==
    /\ next_table_id <= MaxLoads
    /\ Plain(load_samples(self, [id |-> next_table_id, data |-> data]), "load_samples")
    /\ next_table_id' = next_table_id + 1

LoadSamplesAsync(data) ==
    /\ next_table_id <= MaxLoads
    /\ Len(sample_loaders) < MaxLoaders
    /\ Plain(load_samples_async(self, [id |-> next_table_id, data |-> data]),
             "load_samples_async")
    /\ next_table_id' = next_table_id + 1

\* the worker thread of loader i sends its table (ThreadedPromise::new, L104)
LoaderThreadSends(i) ==
    /\ panicked = NoPanic
    /\ sample_loaders[i].state = "Pending"
    /\ sample_loaders' = [sample_loaders EXCEPT ![i].state = "Ready"]
    /\ UNCHANGED <<sequence, samples, samples_current_generation, current_step,
                   step_frames_remain, active_sounds, mixbuffer, panicked,
                   render_ret, log_dropped, next_table_id, num_ops, last_event_step,
                   frames_since_init, events_since_init, retimed_since_init, last_op>>
    /\ UNCHANGED <<svars, gvars, mvars, qvars, xvars>>

\* the worker thread of loader i dies without sending (load_sample returned
\* None and the unwrap at L450 panicked): the promise polls as Failed
LoaderThreadDies(i) ==
    /\ panicked = NoPanic
    /\ sample_loaders[i].state = "Pending"
    /\ sample_loaders' = [sample_loaders EXCEPT ![i].state = "Failed"]
    /\ UNCHANGED <<sequence, samples, samples_current_generation, current_step,
                   step_frames_remain, active_sounds, mixbuffer, panicked,
                   render_ret, log_dropped, next_table_id, num_ops, last_event_step,
                   frames_since_init, events_since_init, retimed_since_init, last_op>>
    /\ UNCHANGED <<svars, gvars, mvars, qvars, xvars>>

NextRenderer ==
    \/ \E n \in BufferLens : Render(n)
    \/ ResetSequence
    \/ \E seq \in InputSequences : SetSequence(seq)
    \/ \E bpm \in Tempi : SetTempo(bpm)
    \/ \E swing \in Swings : SetSwing(swing)
    \/ SequenceClear
    \/ \E n \in EditSteps : SequenceClearStep(n)
    \/ \E n \in EditSteps, l \in Labels, a \in Amplitudes : SequenceSetStepTrigger(n, l, a)
    \/ \E n \in EditSteps, l \in Labels : SequenceUnsetStepTrigger(n, l)
    \/ \E d \in LoaderData : LoadSamples(d)
    \/ \E d \in LoaderData : LoadSamplesAsync(d)
    \/ \E i \in 1..Len(sample_loaders) : LoaderThreadSends(i)
    \/ \E i \in 1..Len(sample_loaders) : LoaderThreadDies(i)

SpecRenderer == InitRenderer /\ [][NextRenderer]_vars

----------------------------------------------------------------------------
(* Properties of the renderer *)

\* the generation index (0-based) of every table held
Generations == 0..(Len(samples) - 1)

\* the serial numbers of the tables held
HeldTables(smp) == {smp[i].id : i \in 1..Len(smp)}

\* the active sounds that pin a generation older than the current one
PinningOlder ==
    {i \in 1..Len(active_sounds) :
        active_sounds[i].samples_generation < samples_current_generation}

\* C1: render is total: whatever operations preceded it, a render call on a
\* non-empty sequence and a non-empty buffer returns (buffer.len, events)
\* and does not panic on an index into the mix buffer, the sample tables or
\* the output buffer.
C1_RenderIsTotal ==
    last_op = "render" =>
        /\ panicked = NoPanic
        /\ render_ret.len \in BufferLens

\* every active sound designates, by its generation index, the table it
\* started on, with its label present and its length that of the sample
SoundsDesignateTheirTable ==
    \A i \in 1..Len(active_sounds) :
        LET s == active_sounds[i]
        IN  /\ s.samples_generation \in Generations
            /\ samples[s.samples_generation + 1].id = s.origin
            /\ s.label \in DOMAIN samples[s.samples_generation + 1].data
            /\ s.num_frames = samples[s.samples_generation + 1].data[s.label] \div 2

\* a table pinned by an active sound is still held after the next operation
PinnedTablesAreKept ==
    \A i \in 1..Len(active_sounds) :
        active_sounds[i].origin \in HeldTables(samples) =>
            active_sounds[i].origin \in HeldTables(samples')

\* C2: sample swap safety: an active sound keeps designating the table of
\* the generation it started on until it finishes, also after stale
\* generations are retired and the indices renumbered; no table pinned by
\* an active sound is retired; no render call fails on a sample lookup.
C2_SampleSwapSafety ==
    /\ [](SoundsDesignateTheirTable /\ panicked # "samples")
    /\ [][PinnedTablesAreKept]_vars

\* C2 witness: a render call retired generations while a sound that pins a
\* generation older than the current one was playing, and the sound is
\* still playing afterwards (so it has been renumbered)
C2_Witness ==
    /\ last_op = "render"
    /\ panicked = NoPanic
    /\ log_dropped > 0
    /\ PinningOlder # {}

\* C3: retirement bound: after loads and render calls the renderer holds at
\* most 1 + (number of active sounds pinning a generation older than the
\* current one) generations.  Stated for the states a render call leaves.
C3_RetirementBound ==
    (last_op = "render" /\ panicked = NoPanic) =>
        Len(samples) <= 1 + Cardinality(PinningOlder)

\* C4: set_sequence, set_tempo, set_swing and reset_sequence each leave
\* current_step, step_frames_remain and mixbuffer uninitialized.
C4_TimingChangeResets ==
    last_op \in {"set_sequence", "set_tempo", "set_swing", "reset_sequence"} =>
        /\ current_step = None
        /\ step_frames_remain = None
        /\ mixbuffer = None

----------------------------------------------------------------------------
(* audiothread/src/source: what the two source variants have in common *)

\* ringbuf push_slice: as much of the slice as the ring has room for
push_slice(ring, cap, slice) ==
    ring \o SubSeq(slice, 1, Min(Len(slice), cap - Len(ring)))

\* out.iter_mut().zip(samples).for_each(|(o, s)| *o += s), from index `from`
\* (0-based) of out: the buffer afterwards
zip_add(out, from, smpls) ==
    [i \in 1..Len(out) |->
        IF i > from /\ i - from <= Len(smpls) THEN out[i] + smpls[i - from] ELSE out[i]]

----------------------------------------------------------------------------
(* audiothread/src/source/pulled.rs: PulledSource *)

\* sample rate of the output spec the drum render thread is told
PulledRate == 32

\* State::new: bufsize, the capacity of the ring (in f32 samples)
bufsize == (PulledRate \div 8) * 2

\* the sample value of rendered audio (silence is 0)
RenderedValue == 1

\* the PulledSource as one record
pulled_self ==
    [stream_state |-> stream_state,
     pull_req_pending |-> pull_req_pending,
     buffer_rx |-> buffer_rx,
     pull_request_chan |-> pull_request_chan,
     pull_response_chan |-> pull_response_chan,
     unanswered |-> unanswered]

\* PulledSource::from_setup
PulledSource_from_setup ==
    [stream_state |-> "Streaming",
     pull_req_pending |-> FALSE,
     buffer_rx |-> <<>>,
     pull_request_chan |-> <<>>,
     pull_response_chan |-> <<>>,
     unanswered |-> 0]

\* a test that also holds for a ring that is exactly half full
fraction_filled_at_most_half(s) == 2 * Len(s.buffer_rx) <= bufsize

\* fraction_filled() < 0.5
fraction_filled_below_half(s) == 2 * Len(s.buffer_rx) < bufsize

\* TryRecvError::Disconnected on pull_response_rx needs every sender gone;
\* the source keeps pull_response_tx itself (pulled.rs:68, 97)
pull_response_disconnected == FALSE

\* a variant of send_pull_request that does not record the request as pending
send_pull_request_unrecorded(s, rx_alive) ==
    IF rx_alive
    THEN [s EXCEPT !.pull_request_chan = Append(@, "PullRequest"),
                   !.unanswered = @ + 1]
    ELSE [s EXCEPT !.stream_state = "Complete"]

\* send_pull_request; rx_alive: the producer still holds pull_request_rx
send_pull_request(s, rx_alive) ==
    IF rx_alive
    THEN [s EXCEPT !.pull_request_chan = Append(@, "PullRequest"),
                   !.pull_req_pending = TRUE,
                   !.unanswered = @ + 1]
    ELSE [s EXCEPT !.stream_state = "Complete"]

\* PulledSource::update
update(s, rx_alive) ==
    IF s.stream_state # "Streaming" THEN s
    ELSE IF s.pull_req_pending
    THEN IF s.pull_response_chan # <<>>
         THEN LET reply == Head(s.pull_response_chan)
                  s1 == [s EXCEPT !.pull_response_chan = Tail(@)]
              IN  IF reply.kind = "FramesProvided"
                  THEN [s1 EXCEPT !.pull_req_pending = FALSE]
                  ELSE [s1 EXCEPT !.stream_state = "Complete"]
         ELSE IF pull_response_disconnected
              THEN [s EXCEPT !.stream_state = "Complete"]
              ELSE s
    ELSE IF fraction_filled_below_half(s)
    THEN send_pull_request(s, rx_alive)
    ELSE s

\* a mix that zips the ring with the buffer, ring first: the zip takes one
\* more sample from the ring before it finds the buffer exhausted
pulled_mix_to_same_spec_ring_first(s, out_buffer) ==
    LET n == Min(Len(out_buffer), Len(s.buffer_rx))
        taken == Min(Len(out_buffer) + 1, Len(s.buffer_rx))
    IN  [s |-> [s EXCEPT !.buffer_rx = SubSeq(@, taken + 1, Len(@))],
         out |-> zip_add(out_buffer, 0, SubSeq(s.buffer_rx, 1, n))]

\* self.spec.channels of the drum machine's PulledSource: the stereo output
PulledChans == 2

\* PulledSource::mix_to_same_spec: [s: the source afterwards, out: the buffer afterwards]
pulled_mix_to_same_spec(s, out_buffer) ==
    LET n == Min(Len(out_buffer), Len(s.buffer_rx))
    IN  [s |-> [s EXCEPT !.buffer_rx = SubSeq(@, n + 1, Len(@))],
         out |-> zip_add(out_buffer, 0, SubSeq(s.buffer_rx, 1, n))]

----------------------------------------------------------------------------
(* audiothread/src/source/symphonia.rs: SymphoniaSource *)

\* channels and sample rate of the decoded file
SymChans == 2

SymRate == 2

\* the track the source decodes
track_id == 1

\* a packet of the container: its track, whether the decoder accepts it,
\* and the interleaved samples it decodes to
Packet(track, decodes, smpls) == [track_id |-> track, decodes |-> decodes, samples |-> smpls]

\* the files: two packets of the track with a packet of another track in
\* between; or three packets of which the decoder rejects the second; or
\* one packet of four frames, two seconds of audio
Streams ==
    { <<Packet(1, TRUE, <<1, 1, 2, 2>>), Packet(2, TRUE, <<9, 9>>), Packet(1, TRUE, <<3, 3>>)>>,
      <<Packet(1, TRUE, <<1, 1>>), Packet(1, FALSE, <<>>), Packet(1, TRUE, <<2, 2, 3, 3>>)>>,
      <<Packet(1, TRUE, <<1, 1, 2, 2, 3, 3, 4, 4>>)>> }

RECURSIVE decoded_stream(_)
\* the samples the decoder makes of the packets: those of the packets of
\* the track, up to the end of the file or the first packet it rejects
decoded_stream(rd) ==
    IF rd = <<>> THEN <<>>
    ELSE IF Head(rd).track_id # track_id THEN decoded_stream(Tail(rd))
    ELSE IF Head(rd).decodes THEN Head(rd).samples \o decoded_stream(Tail(rd))
    ELSE <<>>

\* the samples a mix call added to a zeroed buffer: the buffer up to the
\* last sample that changed
added_samples(given, out) ==
    LET changed == {i \in 1..Len(out) : out[i] # given[i]}
    IN  IF changed = {} THEN <<>>
        ELSE SubSeq(out, 1, CHOOSE i \in changed : \A j \in changed : j <= i)

\* the SymphoniaSource as one record
symphonia_self ==
    [stream_state |-> stream_state, reader |-> reader, buffer |-> buffer]

\* SymphoniaSource::new
SymphoniaSource_new(packets) ==
    [stream_state |-> "Streaming", reader |-> packets, buffer |-> <<>>]

RECURSIVE decode_next_packet(_)
\* decode_next_packet: [reader: the packets left, some: Some or None, samples]
decode_next_packet(rd) ==
    IF rd = <<>> THEN [reader |-> rd, some |-> FALSE, samples |-> <<>>]
    ELSE IF Head(rd).track_id # track_id THEN decode_next_packet(Tail(rd))
    ELSE IF Head(rd).decodes
         THEN [reader |-> Tail(rd), some |-> TRUE, samples |-> Head(rd).samples]
         ELSE [reader |-> Tail(rd), some |-> FALSE, samples |-> <<>>]

\* a variant of the stream state after a decoded packet: playing again
stream_state_after_packet_resumed(state) == "Streaming"

\* the stream state after a packet was decoded and mixed (symphonia.rs:182-210
\* does not assign it)
stream_state_after_packet(state) == state

RECURSIVE decode_loop_eager(_)
\* a decode loop that also looks for the next packet once the request is
\* filled, and completes the source when there is none
decode_loop_eager(st) ==
    IF st.frames_needed <= 0
    THEN [st EXCEPT !.stream_state =
                 IF decode_next_packet(st.reader).some THEN @ ELSE "Complete"]
    ELSE
    LET dec == decode_next_packet(st.reader)
    IN  IF ~dec.some
        THEN [st EXCEPT !.reader = dec.reader, !.stream_state = "Complete"]
        ELSE
        LET num_decoded_frames == Len(dec.samples) \div SymChans
            num_decoded_frames_mixed == Min(st.frames_needed, num_decoded_frames)
        IN  decode_loop_eager(
                [st EXCEPT
                   !.reader = dec.reader,
                   !.out = zip_add(@, st.out_buffer_frame_offset * SymChans, dec.samples),
                   !.buffer =
                       IF num_decoded_frames - num_decoded_frames_mixed > 0
                       THEN push_slice(@, SymChans * SymRate,
                                SubSeq(dec.samples, num_decoded_frames_mixed * SymChans + 1,
                                       Len(dec.samples)))
                       ELSE @,
                   !.out_buffer_frame_offset = @ + num_decoded_frames_mixed,
                   !.frames_needed = @ - num_decoded_frames_mixed])

RECURSIVE decode_loop(_)
\* the `while frames_needed > 0` loop of SymphoniaSource::mix_to_same_spec
decode_loop(st) ==
    IF st.frames_needed <= 0 THEN st
    ELSE
    LET dec == decode_next_packet(st.reader)
    IN  IF ~dec.some
        THEN [st EXCEPT !.reader = dec.reader, !.stream_state = "Complete"]
        ELSE
        LET num_decoded_frames == Len(dec.samples) \div SymChans
            num_decoded_frames_mixed == Min(st.frames_needed, num_decoded_frames)
        IN  decode_loop(
                [st EXCEPT
                   !.reader = dec.reader,
                   !.stream_state = stream_state_after_packet(@),
                   !.out = zip_add(@, st.out_buffer_frame_offset * SymChans, dec.samples),
                   !.buffer =
                       IF num_decoded_frames - num_decoded_frames_mixed > 0
                       THEN push_slice(@, SymChans * SymRate,
                                SubSeq(dec.samples, num_decoded_frames_mixed * SymChans + 1,
                                       Len(dec.samples)))
                       ELSE @,
                   !.out_buffer_frame_offset = @ + num_decoded_frames_mixed,
                   !.frames_needed = @ - num_decoded_frames_mixed])

\* SymphoniaSource::mix_to_same_spec: [s, out]
symphonia_mix_to_same_spec(s, out_buffer) ==
    LET num_out_buffer_frames == Len(out_buffer) \div SymChans
        prior_decoded_frames_avail == Len(s.buffer) \div SymChans
        prior_decoded_frames_drained == Min(num_out_buffer_frames, prior_decoded_frames_avail)
        n == Min(Len(out_buffer), Len(s.buffer))
        fin == decode_loop(
                   [reader |-> s.reader,
                    stream_state |-> s.stream_state,
                    buffer |-> SubSeq(s.buffer, n + 1, Len(s.buffer)),
                    out |-> zip_add(out_buffer, 0, SubSeq(s.buffer, 1, n)),
                    out_buffer_frame_offset |-> prior_decoded_frames_drained,
                    frames_needed |-> num_out_buffer_frames - prior_decoded_frames_drained])
    IN  [s |-> [stream_state |-> fin.stream_state, reader |-> fin.reader, buffer |-> fin.buffer],
         out |-> fin.out]

----------------------------------------------------------------------------
(* One source of the mixer as a state machine.  The mixer thread calls    *)
(* update and mix_to_same_spec on it and drops it once it is Complete.    *)
(* A PulledSource has the drum render thread as its producer, and the     *)
(* thread has a client that sends it control messages.                    *)

\* the buffers handed to mix_to_same_spec (zeroed by the caller)
OutBuffers == {<<0, 0>>, <<0, 0, 0, 0>>}

\* of these, the buffers a PulledSource is mixed into: the drum machine's
\* source meets callbacks of one frame, a quarter of its ring
PulledOutBuffers == {b \in OutBuffers : Len(b) * 4 <= bufsize}

\* control messages the client sends.  The others only reach the renderer,
\* and so does what Stop does beyond Pause: Stop is under SpecDrumThread
ControlMessages == {"Play", "Pause", "Shutdown"}

\* capacity of the control queue in the model
MaxQueue == 1

\* assignment of the PulledSource's fields from a record
PulledBecomes(s) ==
    /\ stream_state' = s.stream_state
    /\ pull_req_pending' = s.pull_req_pending
    /\ buffer_rx' = s.buffer_rx
    /\ pull_request_chan' = s.pull_request_chan
    /\ pull_response_chan' = s.pull_response_chan
    /\ unanswered' = s.unanswered

\* assignment of the SymphoniaSource's fields from a record
SymphoniaBecomes(s) ==
    /\ stream_state' = s.stream_state
    /\ reader' = s.reader
    /\ buffer' = s.buffer

pullvars == <<pull_req_pending, buffer_rx, pull_request_chan, pull_response_chan, unanswered>>

symvars == <<reader, buffer, file, delivered>>

threadvars == <<pc, paused, shutdown_request, shutdown_age, warned, num_vacant,
                control_chan, control_tx_alive>>

\* the producer thread has not left its loop: it holds pull_request_rx
producer_alive == pc \in {"control", "pull", "push", "timeout"}

\* a PulledSource created by the drum render thread (State::new), the
\* thread at the top of its loop, paused
InitPulled ==
    /\ MixerIdle
    /\ SequenceIdle
    /\ ExtIdle
    /\ SampleSetIdle
    /\ source_kind = "PulledSource"
    /\ stream_state = PulledSource_from_setup.stream_state
    /\ pull_req_pending = PulledSource_from_setup.pull_req_pending
    /\ buffer_rx = PulledSource_from_setup.buffer_rx
    /\ pull_request_chan = PulledSource_from_setup.pull_request_chan
    /\ pull_response_chan = PulledSource_from_setup.pull_response_chan
    /\ unanswered = PulledSource_from_setup.unanswered
    /\ reader = <<>>
    /\ buffer = <<>>
    /\ file = <<>>
    /\ delivered = <<>>
    /\ pc = "control"
    /\ paused = TRUE
    /\ shutdown_request = FALSE
    /\ shutdown_age = 0
    /\ warned = FALSE
    /\ num_vacant = 0
    /\ control_chan = <<>>
    /\ control_tx_alive = TRUE

\* a SymphoniaSource over one of the files; there is no producer thread
InitSymphonia ==
    /\ MixerIdle
    /\ SequenceIdle
    /\ ExtIdle
    /\ SampleSetIdle
    /\ source_kind = "SymphoniaSource"
    /\ \E packets \in Streams :
           /\ stream_state = SymphoniaSource_new(packets).stream_state
           /\ reader = SymphoniaSource_new(packets).reader
           /\ buffer = SymphoniaSource_new(packets).buffer
           /\ file = packets
    /\ delivered = <<>>
    /\ pull_req_pending = FALSE
    /\ buffer_rx = <<>>
    /\ pull_request_chan = <<>>
    /\ pull_response_chan = <<>>
    /\ unanswered = 0
    /\ pc = "none"
    /\ paused = TRUE
    /\ shutdown_request = FALSE
    /\ shutdown_age = 0
    /\ warned = FALSE
    /\ num_vacant = 0
    /\ control_chan = <<>>
    /\ control_tx_alive = FALSE

InitSource ==
    /\ RendererNew
    /\ ExportIdle
    /\ last_op = "new"
    /\ source_dropped = FALSE
    /\ last_mix = NoCall
    /\ last_update = NoCall
    /\ (InitPulled \/ InitSymphonia)
    /\ GroupIdle

\* the mixer thread calls update on a PulledSource
Update ==
    /\ source_kind = "PulledSource"
    /\ ~source_dropped
    /\ PulledBecomes(update(pulled_self, producer_alive))
    /\ last_update' = [NoCall EXCEPT !.state = stream_state, !.pending = pull_req_pending]
    /\ last_op' = "update"
    /\ UNCHANGED <<rvars, gvars, mvars, qvars, xvars, source_kind, source_dropped, last_mix, symvars, threadvars>>

\* the mixer thread calls mix_to_same_spec (Source::mix_to_same_spec dispatches)
Mix(out_buffer) ==
    /\ ~source_dropped
    /\ \/ /\ source_kind = "PulledSource"
          /\ out_buffer \in PulledOutBuffers
          /\ LET res == pulled_mix_to_same_spec(pulled_self, out_buffer)
             IN  /\ PulledBecomes(res.s)
                 /\ last_mix' = [NoCall EXCEPT !.state = stream_state,
                                               !.given = out_buffer, !.out = res.out]
          /\ UNCHANGED symvars
       \/ /\ source_kind = "SymphoniaSource"
          /\ LET res == symphonia_mix_to_same_spec(symphonia_self, out_buffer)
             IN  /\ SymphoniaBecomes(res.s)
                 /\ delivered' = delivered \o added_samples(out_buffer, res.out)
                 /\ UNCHANGED file
                 /\ last_mix' = [NoCall EXCEPT !.state = stream_state,
                                               !.given = out_buffer, !.out = res.out]
          /\ UNCHANGED pullvars
    /\ last_op' = "mix"
    /\ UNCHANGED <<rvars, gvars, mvars, qvars, xvars, source_kind, source_dropped, last_update, threadvars>>

\* the mixer drops the source once it is Complete (drop_completed_sources);
\* with a PulledSource its pull_request_tx and pull_response_rx go
DropCompleted ==
    /\ ~source_dropped
    /\ stream_state = "Complete"
    /\ source_dropped' = TRUE
    /\ last_op' = "drop_completed_sources"
    /\ UNCHANGED <<rvars, gvars, mvars, qvars, xvars, source_kind, stream_state, last_mix, last_update,
                   pullvars, symvars, threadvars>>

\* the client of the drum render thread sends a control message
ClientSends(message) ==
    /\ control_tx_alive
    /\ Len(control_chan) < MaxQueue
    /\ control_chan' = Append(control_chan, message)
    /\ last_op' = "send"
    /\ UNCHANGED <<rvars, gvars, mvars, qvars, xvars, source_kind, stream_state, source_dropped, last_mix, last_update,
                   pullvars, symvars, pc, paused, shutdown_request, shutdown_age, warned, num_vacant,
                   control_tx_alive>>

\* the client drops its control sender
ClientDrops ==
    /\ control_tx_alive
    /\ control_tx_alive' = FALSE
    /\ last_op' = "drop_sender"
    /\ UNCHANGED <<rvars, gvars, mvars, qvars, xvars, source_kind, stream_state, source_dropped, last_mix, last_update,
                   pullvars, symvars, pc, paused, shutdown_request, shutdown_age, warned, num_vacant,
                   control_chan>>

\* a control match that applies messages also after a shutdown request
control_match_late(shutdown_req, was_paused, message) ==
    [paused |-> CASE message = "Play" -> FALSE
                  [] message \in {"Pause", "Stop"} -> TRUE
                  [] OTHER -> was_paused,
     shutdown_request |-> (shutdown_req \/ message = "Shutdown")]

\* match (shutdown_request, Ok(message)): the flags afterwards
control_match(shutdown_req, was_paused, message) ==
    IF shutdown_req
    THEN [paused |-> was_paused, shutdown_request |-> shutdown_req]
    ELSE [paused |-> CASE message = "Play" -> FALSE
                       [] message \in {"Pause", "Stop"} -> TRUE
                       [] OTHER -> was_paused,
          shutdown_request |-> (message = "Shutdown")]

\* drum render thread: match (shutdown_request, control_rx.try_recv())
ThreadControl ==
    /\ pc = "control"
    /\ IF control_chan # <<>>
       THEN /\ control_chan' = Tail(control_chan)
            /\ pc' = "pull"
            /\ paused' = control_match(shutdown_request, paused, Head(control_chan)).paused
            /\ shutdown_request' =
                   control_match(shutdown_request, paused, Head(control_chan)).shutdown_request
            /\ warned' = (warned \/ shutdown_request)
            /\ UNCHANGED shutdown_age
       ELSE /\ pc' = IF control_tx_alive THEN "pull" ELSE "exited"
            /\ UNCHANGED <<control_chan, paused, shutdown_request, shutdown_age, warned>>
    /\ last_op' = "thread_control"
    /\ UNCHANGED <<rvars, gvars, mvars, qvars, xvars, source_kind, stream_state, source_dropped, last_mix, last_update,
                   pullvars, symvars, num_vacant, control_tx_alive>>

\* a ring that reports all of its capacity as vacant
vacant_len_capacity(ring) == bufsize

\* rts.buffer_tx.vacant_len(): the free space of the ring
vacant_len(ring) == bufsize - Len(ring)

\* drum render thread: match (shutdown_request, pull_request_rx.try_recv()),
\* up to the reading of the ring's vacant length
ThreadPull ==
    /\ pc = "pull"
    /\ IF pull_request_chan # <<>>
       THEN /\ pull_request_chan' = Tail(pull_request_chan)
            /\ IF ~shutdown_request
               THEN /\ num_vacant' = vacant_len(buffer_rx)
                    /\ pc' = "push"
                    /\ UNCHANGED <<unanswered, pull_response_chan>>
               ELSE /\ pull_response_chan' =
                           IF source_dropped THEN pull_response_chan
                           ELSE Append(pull_response_chan, [kind |-> "Disconnect", frames |-> 0])
                    /\ unanswered' = unanswered - 1
                    /\ pc' = "exited"
                    /\ UNCHANGED num_vacant
       ELSE /\ pc' = IF source_dropped THEN "exited" ELSE "timeout"
            /\ UNCHANGED <<pull_request_chan, unanswered, pull_response_chan, num_vacant>>
    /\ last_op' = "thread_pull"
    /\ UNCHANGED <<rvars, gvars, mvars, qvars, xvars, source_kind, stream_state, source_dropped, last_mix, last_update,
                   pull_req_pending, buffer_rx, symvars, paused, shutdown_request, shutdown_age,
                   warned, control_chan, control_tx_alive>>

\* drum render thread: the rest of the (None, Ok(PullRequest)) arm: render
\* or silence into buffer[..num_vacant], push_slice, send FramesProvided
ThreadPush ==
    /\ pc = "push"
    /\ LET rendered == [i \in 1..num_vacant |-> IF paused THEN 0 ELSE RenderedValue]
       IN  buffer_rx' = push_slice(buffer_rx, bufsize, rendered)
    /\ unanswered' = unanswered - 1
    /\ IF source_dropped
       THEN /\ pc' = "exited"
            /\ UNCHANGED pull_response_chan
       ELSE /\ pc' = "timeout"
            /\ pull_response_chan' =
                   Append(pull_response_chan,
                          [kind |-> "FramesProvided", frames |-> num_vacant])
    /\ num_vacant' = 0
    /\ last_op' = "thread_push"
    /\ UNCHANGED <<rvars, gvars, mvars, qvars, xvars, source_kind, stream_state, source_dropped, last_mix, last_update,
                   pull_req_pending, pull_request_chan, symvars, paused, shutdown_request,
                   shutdown_age, warned, control_chan, control_tx_alive>>

\* shutdown_timeout (3 s) in loop passes: every pass sleeps 2 ms, so the
\* 3 s have passed after at most 1500 passes; 2 passes here
shutdown_timeout == 2

\* request.elapsed() >= shutdown_timeout: certain after shutdown_timeout
\* passes, possible earlier (early: the passes took that long)
shutdown_elapsed(age, early) == early \/ age >= shutdown_timeout

\* drum render thread: the shutdown timeout check, then events and sleep.
\* elapsed: 3 seconds have passed since the Shutdown message
ThreadTimeout(elapsed) ==
    /\ pc = "timeout"
    /\ pc' = IF shutdown_request /\ shutdown_elapsed(shutdown_age, elapsed)
             THEN "exited" ELSE "control"
    /\ shutdown_age' = IF shutdown_request THEN Min(shutdown_age + 1, shutdown_timeout)
                       ELSE shutdown_age
    /\ last_op' = "thread_timeout"
    /\ UNCHANGED <<rvars, gvars, mvars, qvars, xvars, source_kind, stream_state, source_dropped, last_mix, last_update,
                   pullvars, symvars, paused, shutdown_request, warned, num_vacant,
                   control_chan, control_tx_alive>>

NextSource ==
    \/ Update
    \/ \E out_buffer \in OutBuffers : Mix(out_buffer)
    \/ DropCompleted
    \/ \E message \in ControlMessages : ClientSends(message)
    \/ ClientDrops
    \/ ThreadControl
    \/ ThreadPull
    \/ ThreadPush
    \/ \E elapsed \in BOOLEAN : ThreadTimeout(elapsed)

SpecSource == InitSource /\ [][NextSource]_vars

\* the mixer thread keeps calling update and mix_to_same_spec in its loop,
\* and the drum render thread keeps running its loop
FairSpecSource ==
    /\ SpecSource
    /\ WF_vars(Update)
    /\ WF_vars(\E out_buffer \in OutBuffers : Mix(out_buffer))
    /\ WF_vars(ThreadControl)
    /\ WF_vars(ThreadPull)
    /\ WF_vars(ThreadPush)
    /\ WF_vars(\E elapsed \in BOOLEAN : ThreadTimeout(elapsed))

----------------------------------------------------------------------------
(* Properties of the sources *)

\* a step that leaves a Complete source Complete
CompleteStays == stream_state = "Complete" => stream_state' = "Complete"

\* C5: for both source variants the stream state changes only from
\* Streaming to Complete: no update or mix_to_same_spec call and no pull
\* reply makes a source that is Complete stream again.
C5_StateMonotone == [][CompleteStays]_vars

\* C5 witness: a file-decoded source that was already Complete was mixed
\* again, a further packet was decoded into the buffer, and it is still
\* Complete
C5_Witness ==
    /\ source_kind = "SymphoniaSource"
    /\ last_op = "mix"
    /\ last_mix.state = "Complete"
    /\ last_mix.out # last_mix.given
    /\ stream_state = "Complete"

\* C6: once a source is Complete, a mix_to_same_spec(out) call is a no-op:
\* it leaves out unchanged, whatever remains in the ring or the decoder.
C6_CompleteMixIsNoop ==
    (last_op = "mix" /\ last_mix.state = "Complete") => last_mix.out = last_mix.given

\* a step in which the source sends a pull request
SendsRequest == unanswered' > unanswered

\* a request is sent only by a Streaming source with no request pending
SendsOnlyWhenIdle ==
    SendsRequest =>
        /\ stream_state = "Streaming"
        /\ ~pull_req_pending
        /\ unanswered = 0

\* C7: pull-request backpressure: at most one pull request is unanswered at
\* any time; the source sends no request while one is pending and none
\* once it is Complete.
C7_Backpressure ==
    /\ [](unanswered <= 1)
    /\ [][SendsOnlyWhenIdle]_vars

\* C7 witness: update was called with a request pending and the ring below
\* half, and sent nothing: one request is unanswered
C7_Witness ==
    /\ last_op = "update"
    /\ last_update.state = "Streaming"
    /\ last_update.pending
    /\ pull_req_pending
    /\ fraction_filled_below_half(pulled_self)
    /\ unanswered = 1

\* the producer has gone away: the drum render thread has left its loop
ProducerGone == source_kind = "PulledSource" /\ pc = "exited"

\* C8: if the producer goes away (it replied Disconnect, or it exited and
\* dropped its pull-request receiver), then under repeated update calls the
\* source eventually becomes Complete, also when a pull request was
\* unanswered at the moment the producer exited.
C8_ProducerGoneCompletes == ProducerGone ~> stream_state = "Complete"

----------------------------------------------------------------------------
(* audiothread/src/ext.rs: iterator adapters and frame slices *)

\* doubled: every sample twice
doubled(smpls) == [i \in 1..(2 * Len(smpls)) |-> smpls[(i + 1) \div 2]]

\* a filter that keeps the last `to` channels of every frame
kept_indices_last(n, from, to) == {i \in 0..(n - 1) : i % from >= from - to}

\* the 0-based indices i of a stream of n samples with i % from < to
kept_indices(n, from, to) == {i \in 0..(n - 1) : i % from < to}

\* drop_channels(from, to): the samples at the kept indices, in order
drop_channels(smpls, from, to) ==
    LET kept == kept_indices(Len(smpls), from, to)
        rank(i) == Cardinality({j \in kept : j <= i})
    IN  [k \in 1..Cardinality(kept) |->
            smpls[1 + CHOOSE i \in kept : rank(i) = k]]

\* len_frames
len_frames(smpls, chans) == Len(smpls) \div chans

\* slice_frames(spec, from..): the samples from frame `from` (0-based) on
slice_frames_from(smpls, chans, from) == SubSeq(smpls, from * chans + 1, Len(smpls))

----------------------------------------------------------------------------
(* audiothread/src/source/mod.rs: FakeSource *)

\* a FakeSource holding num_frames frames of the sample value 1
FakeSource(src_spec, num_frames) ==
    [spec |-> src_spec,
     buffer |-> [i \in 1..(num_frames * src_spec.channels) |-> 1],
     stream_state |-> "Streaming",
     read_frame_offset |-> 0]

\* FakeSource::mix_to_same_spec: [s: the source afterwards, out: the buffer afterwards]
fake_mix_to_same_spec(s, out_buffer) ==
    LET self_offset_buffer == slice_frames_from(s.buffer, s.spec.channels, s.read_frame_offset)
        offset == s.read_frame_offset
                      + Min(len_frames(out_buffer, s.spec.channels),
                            len_frames(self_offset_buffer, s.spec.channels))
    IN  [s |-> [s EXCEPT !.read_frame_offset = offset,
                         !.stream_state =
                             IF offset = len_frames(s.buffer, s.spec.channels)
                             THEN "Complete" ELSE @],
         out |-> zip_add(out_buffer, 0, self_offset_buffer)]

----------------------------------------------------------------------------
(* audiothread/src/source/mod.rs: SourceGroup *)

\* the SourceGroup as one record
group_self ==
    [spec |-> group_spec,
     sources |-> sources,
     samplerate_conv_done_once |-> samplerate_conv_done_once,
     pre_conv_buf |-> pre_conv_buf,
     post_conv_overflow_buf |-> post_conv_overflow_buf]

\* length of pre_conv_buf and capacity of the overflow ring (SourceGroup::new)
group_buf_len(source_spec) == source_spec.channels * source_spec.samplerate

\* SourceGroup::new
SourceGroup_new(source_spec) ==
    [spec |-> source_spec,
     sources |-> <<>>,
     samplerate_conv_done_once |-> FALSE,
     pre_conv_buf |-> [i \in 1..group_buf_len(source_spec) |-> 0],
     post_conv_overflow_buf |-> <<>>]

\* make_channel_conversion(..).is_some()
has_channel_conv(source_spec, out_spec) == source_spec.channels # out_spec.channels

\* make_rate_conversion(..).is_some()
has_rate_conv(source_spec, out_spec) == source_spec.samplerate # out_spec.samplerate

\* a variant of add_source that puts the source in place of the members
add_source_replacing(g, source) ==
    IF source.spec # g.spec
    THEN [g |-> g, ok |-> FALSE]
    ELSE [g |-> [g EXCEPT !.sources = <<source>>], ok |-> TRUE]

\* a variant of add_source that takes a source of any spec
add_source_unchecked(g, source) ==
    [g |-> [g EXCEPT !.sources = Append(@, source)], ok |-> TRUE]

\* add_source: [g, ok]
add_source(g, source) ==
    IF g.spec = source.spec
    THEN [g |-> [g EXCEPT !.sources = Append(@, source)], ok |-> TRUE]
    ELSE [g |-> g, ok |-> FALSE]

\* drop_completed_sources
drop_completed_sources(g) ==
    [g EXCEPT !.sources =
        SelectSeqBy(@, [src \in Range(@) |-> src.stream_state # "Complete"])]

\* a quotient rounded down
floor_div(a, b) == a \div b

\* -(-a \div b) for a >= 0, b > 0: f64::ceil of the quotient
ceil_div(a, b) == (a + b - 1) \div b

RECURSIVE channel_converted(_, _, _)
\* the DuplicateAndOrTruncate conversion: double while there are fewer
\* channels than the output has, then drop the channels beyond
channel_converted(smpls, num_channels, output_channels) ==
    IF num_channels < output_channels
    THEN channel_converted(doubled(smpls), num_channels * 2, output_channels)
    ELSE IF num_channels > output_channels
    THEN drop_channels(smpls, num_channels, output_channels)
    ELSE smpls

\* converter.process(input) of the samplerate crate (libsamplerate), by its
\* frame count: floor(input frames * out rate / source rate) frames of
\* `chans` channels; output frame j repeats the input frame it falls in
process(input, chans, source_rate, out_rate) ==
    LET out_frames == (len_frames(input, chans) * out_rate) \div source_rate
    IN  [i \in 1..(out_frames * chans) |->
            input[((((i - 1) \div chans) * source_rate) \div out_rate) * chans
                  + ((i - 1) % chans) + 1]]

RECURSIVE mix_sources(_, _)
\* for source in self.sources.iter_mut() { source.mix_to_same_spec(mixbuf) }:
\* [sources: the sources afterwards, out: mixbuf afterwards]
mix_sources(srcs, mixbuf) ==
    IF srcs = <<>> THEN [sources |-> <<>>, out |-> mixbuf]
    ELSE LET first == fake_mix_to_same_spec(Head(srcs), mixbuf)
             rest == mix_sources(Tail(srcs), first.out)
         IN  [sources |-> <<first.s>> \o rest.sources, out |-> rest.out]

\* a variant of the test for an empty source list that never finds it empty
sources_is_empty_skipped(g) == FALSE

\* self.sources.is_empty()
sources_is_empty(g) == g.sources = <<>>

\* mix_to_given_spec: [g: the group afterwards, out: the buffer afterwards, panic]
mix_to_given_spec(g, out_spec, out_buffer) ==
    IF sources_is_empty(g) THEN [g |-> g, out |-> out_buffer, panic |-> NoPanic]
    ELSE
    LET self_chans == g.spec.channels
        out_chans == out_spec.channels
        cap == group_buf_len(g.spec)
        num_out_buffer_frames == len_frames(out_buffer, out_chans)
        prior_overflow_frames_available == Len(g.post_conv_overflow_buf) \div out_chans
        prior_overflow_frames_drained ==
            Min(num_out_buffer_frames, prior_overflow_frames_available)
        popped == Min(Len(out_buffer), Len(g.post_conv_overflow_buf))
        out1 == zip_add(out_buffer, 0, SubSeq(g.post_conv_overflow_buf, 1, popped))
        ring1 == SubSeq(g.post_conv_overflow_buf, popped + 1, Len(g.post_conv_overflow_buf))
        out_spec_frames_needed == num_out_buffer_frames - prior_overflow_frames_drained
        first_conv == ~g.samplerate_conv_done_once /\ g.spec # out_spec
        source_spec_frames_needed_ceil ==
            IF first_conv
            THEN ceil_div(out_spec_frames_needed * g.spec.samplerate * 3,
                          out_spec.samplerate * 2)
            ELSE ceil_div(out_spec_frames_needed * g.spec.samplerate, out_spec.samplerate)
        g1 == [g EXCEPT !.post_conv_overflow_buf = ring1]
    IN
    IF out_spec_frames_needed = 0 THEN [g |-> g1, out |-> out1, panic |-> NoPanic]
    ELSE IF source_spec_frames_needed_ceil * self_chans > Len(g.pre_conv_buf)
    THEN [g |-> [g1 EXCEPT !.samplerate_conv_done_once = @ \/ first_conv],
          out |-> out1, panic |-> "pre_conv_buf"]
    ELSE
    LET zeroed == [i \in 1..(source_spec_frames_needed_ceil * self_chans) |-> 0]
        mixd == mix_sources(g.sources, zeroed)
        mixbuf == mixd.out
        g2 == [g1 EXCEPT !.samplerate_conv_done_once = @ \/ first_conv,
                         !.sources = mixd.sources,
                         !.pre_conv_buf = mixbuf \o SubSeq(@, Len(mixbuf) + 1, Len(@))]
        mixbuf_iter == IF has_channel_conv(g.spec, out_spec)
                       THEN channel_converted(mixbuf, self_chans, out_chans)
                       ELSE mixbuf
    IN
    IF has_rate_conv(g.spec, out_spec)
    THEN LET converted_samples ==
                 process(mixbuf_iter, out_chans, g.spec.samplerate, out_spec.samplerate)
             num_converted_frames == len_frames(converted_samples, out_chans)
             overflow_frames == num_converted_frames - out_spec_frames_needed
         IN  IF overflow_frames < 0
             THEN [g |-> g2, out |-> out1, panic |-> "converted"]
             ELSE [g |-> [g2 EXCEPT !.post_conv_overflow_buf =
                             push_slice(@, cap,
                                 slice_frames_from(converted_samples, out_chans,
                                     num_converted_frames - overflow_frames))],
                   out |-> zip_add(out1, prior_overflow_frames_drained * out_chans,
                                   converted_samples),
                   panic |-> NoPanic]
    ELSE [g |-> g2,
          out |-> zip_add(out1, prior_overflow_frames_drained * out_chans, mixbuf_iter),
          panic |-> NoPanic]

----------------------------------------------------------------------------
(* One SourceGroup as a state machine: the mixer adds sources to it, mixes *)
(* it into the output buffer of a write callback and drops the sources     *)
(* that are Complete.                                                      *)

AudioSpec(samplerate, channels) == [samplerate |-> samplerate, channels |-> channels]

\* (source spec, output spec) of the groups: mono at half the output rate;
\* the output spec itself; stereo at twice the rate of a mono output; mono
\* at the output rate
GroupConfigs ==
    { <<AudioSpec(3, 1), AudioSpec(6, 2)>>,
      <<AudioSpec(6, 2), AudioSpec(6, 2)>>,
      <<AudioSpec(6, 2), AudioSpec(3, 1)>>,
      <<AudioSpec(6, 1), AudioSpec(6, 2)>> }

\* lengths, in frames, of the sources added
SourceFrames == {3}

\* lengths, in frames, of the output buffers of the write callbacks
OutFrames == {1, 2, 4}

\* number of sources a group holds at once in the model
MaxSources == 2

\* assignment of the group's fields from a record
GroupBecomes(g) ==
    /\ sources' = g.sources
    /\ samplerate_conv_done_once' = g.samplerate_conv_done_once
    /\ pre_conv_buf' = g.pre_conv_buf
    /\ post_conv_overflow_buf' = g.post_conv_overflow_buf

\* what last_group_mix holds before any call
NoGroupMix ==
    [sources_len |-> 0, overflow |-> <<>>, pre_conv_buf |-> <<>>,
     done_once |-> FALSE, given |-> <<>>, out |-> <<>>]

\* what last_add holds before any call
NoAdd == [source |-> <<>>, ok |-> TRUE]

InitGroup ==
    /\ MixerIdle
    /\ SequenceIdle
    /\ ExtIdle
    /\ SampleSetIdle
    /\ RendererNew
    /\ ExportIdle
    /\ SourceIdle
    /\ last_op = "new"
    /\ \E config \in GroupConfigs :
           /\ group_spec = SourceGroup_new(config[1]).spec
           /\ output_spec = config[2]
           /\ sources = SourceGroup_new(config[1]).sources
           /\ samplerate_conv_done_once = SourceGroup_new(config[1]).samplerate_conv_done_once
           /\ pre_conv_buf = SourceGroup_new(config[1]).pre_conv_buf
           /\ post_conv_overflow_buf = SourceGroup_new(config[1]).post_conv_overflow_buf
    /\ group_panicked = NoPanic
    /\ last_group_mix = NoGroupMix
    /\ last_add = NoAdd

\* add_source with a source of the given length, whose spec is the group's
\* or (other_spec) that of the output
AddSource(other_spec, num_frames) ==
    /\ group_panicked = NoPanic
    /\ Len(sources) < MaxSources
    /\ LET source == FakeSource(IF other_spec THEN output_spec ELSE group_spec, num_frames)
       IN  /\ GroupBecomes(add_source(group_self, source).g)
           /\ last_op' = IF add_source(group_self, source).ok
                         THEN "add_source" ELSE "add_source_err"
           /\ last_add' = [source |-> source, ok |-> add_source(group_self, source).ok]
    /\ UNCHANGED <<rvars, svars, mvars, qvars, xvars, group_spec, output_spec, group_panicked, last_group_mix>>

\* drop_completed_sources
DropCompletedSources ==
    /\ group_panicked = NoPanic
    /\ GroupBecomes(drop_completed_sources(group_self))
    /\ last_op' = "drop_completed_sources"
    /\ UNCHANGED <<rvars, svars, mvars, qvars, xvars, group_spec, output_spec, group_panicked, last_group_mix,
                   last_add>>

\* mix_to_given_spec(output_spec, out_buffer) with a zeroed buffer of num_frames frames
MixToGivenSpec(num_frames) ==
    /\ group_panicked = NoPanic
    /\ LET out_buffer == [i \in 1..(num_frames * output_spec.channels) |-> 0]
           res == mix_to_given_spec(group_self, output_spec, out_buffer)
       IN  /\ GroupBecomes(res.g)
           /\ group_panicked' = res.panic
           /\ last_group_mix' = [sources_len |-> Len(sources),
                                 overflow |-> post_conv_overflow_buf,
                                 pre_conv_buf |-> pre_conv_buf,
                                 done_once |-> samplerate_conv_done_once,
                                 given |-> out_buffer,
                                 out |-> res.out]
    /\ last_op' = "mix_to_given_spec"
    /\ UNCHANGED <<rvars, svars, mvars, qvars, xvars, group_spec, output_spec, last_add>>

NextGroup ==
    \/ \E other_spec \in BOOLEAN, num_frames \in SourceFrames : AddSource(other_spec, num_frames)
    \/ DropCompletedSources
    \/ \E num_frames \in OutFrames : MixToGivenSpec(num_frames)

SpecGroup == InitGroup /\ [][NextGroup]_vars

----------------------------------------------------------------------------
(* Properties of the source group *)

\* C9: after any number of mix_to_given_spec calls the overflow ring of a
\* SourceGroup holds a whole number of frames in the output spec: its
\* occupied length is a multiple of the output channel count, which is what
\* the debug assertion at the start of mix_to_given_spec requires.
C9_OverflowWholeFrames ==
    Len(post_conv_overflow_buf) % output_spec.channels = 0

\* C10: mix_to_given_spec on a group with no sources is a no-op: it leaves
\* the output buffer, the overflow ring, the scratch buffer and the
\* first-conversion latch unchanged.
C10_EmptyGroupMixIsNoop ==
    (last_op = "mix_to_given_spec" /\ last_group_mix.sources_len = 0) =>
        /\ group_panicked = NoPanic
        /\ last_group_mix.out = last_group_mix.given
        /\ post_conv_overflow_buf = last_group_mix.overflow
        /\ pre_conv_buf = last_group_mix.pre_conv_buf
        /\ samplerate_conv_done_once = last_group_mix.done_once

\* C10 witness: a group whose sources have all been dropped was mixed while
\* its overflow ring still held converted samples, its scratch buffer held
\* mixed audio and its latch was set
C10_Witness ==
    /\ last_op = "mix_to_given_spec"
    /\ last_group_mix.sources_len = 0
    /\ last_group_mix.overflow # <<>>
    /\ last_group_mix.done_once
    /\ \E i \in 1..Len(pre_conv_buf) : pre_conv_buf[i] # 0

\* every member source of the group has the group's spec
MembersHaveGroupSpec ==
    \A i \in 1..Len(sources) : sources[i].spec = group_spec

\* a step that is an add_source call
IsAddSource == last_op' \in {"add_source", "add_source_err"}

\* add_source rejects a source of another spec and leaves the list as it
\* was; it appends a source of the group's spec at the end
AddSourceChecksSpec ==
    IsAddSource =>
        IF last_add'.source.spec # group_spec
        THEN ~last_add'.ok /\ sources' = sources
        ELSE last_add'.ok /\ sources' = Append(sources, last_add'.source)

\* C11: add_source returns MismatchedSpecError and leaves the source list
\* unchanged when the source's spec differs from the group's; otherwise it
\* appends the source at the end.  So every member of a group has the
\* group's spec after any add_source and drop_completed_sources calls.
C11_AddSourceSpec ==
    /\ []MembersHaveGroupSpec
    /\ [][AddSourceChecksSpec]_vars

\* C11 witness: a group that already has a member rejected a source of
\* another spec
C11_Witness ==
    /\ last_op = "add_source_err"
    /\ ~last_add.ok
    /\ last_add.source.spec # group_spec
    /\ sources # <<>>

----------------------------------------------------------------------------
(* audiothread/src/lib.rs: the mixer thread *)

\* Vec::push in recv_all
messages_push_front(msgs, message) == <<message>> \o msgs

messages_push(msgs, message) == Append(msgs, message)

\* a source as the mixer holds it
MixerSource(id, source_spec) ==
    [id |-> id, spec |-> source_spec, stream_state |-> "Streaming"]

\* the groups map without any group
NoGroups == <<>>

\* the specs that have a group
group_keys(gs) == {gs[i].key : i \in 1..Len(gs)}

\* groups[key]
group_of(gs, key) == (CHOOSE i \in 1..Len(gs) : gs[i].key = key)

\* insert src into groups[src.spec], creating the group if absent
play_source(gs, src) ==
    IF src.spec \in group_keys(gs)
    THEN [gs EXCEPT ![group_of(gs, src.spec)].group = add_source(@, src).g]
    ELSE Append(gs, [key |-> src.spec,
                     group |-> add_source(SourceGroup_new(src.spec), src).g])

\* the body of the dispatch loop for a message other than Shutdown
dispatch_one(gs, message) ==
    CASE message.type = "DropAll" -> NoGroups
      [] message.type \in {"PlaySymphoniaSource", "CreatePulledSource"} ->
             play_source(gs, MixerSource(message.id, message.spec))

\* a dispatch loop that goes on after Shutdown
RECURSIVE dispatch_past_shutdown(_, _)
dispatch_past_shutdown(st, msgs) ==
    IF msgs = <<>> THEN st
    ELSE IF Head(msgs).type = "Shutdown"
         THEN dispatch_past_shutdown(
                  [st EXCEPT !.quit = TRUE, !.dispatched = Append(@, Head(msgs))], Tail(msgs))
         ELSE dispatch_past_shutdown(
                  [st EXCEPT !.groups = dispatch_one(@, Head(msgs)),
                             !.dispatched = Append(@, Head(msgs)),
                             !.cleared = @ \/ Head(msgs).type = "DropAll"], Tail(msgs))

\* for message in messages { match message { .. } }
\* st: [groups, dispatched: the messages matched, quit, cleared: a DropAll was among them]
RECURSIVE dispatch(_, _)
dispatch(st, msgs) ==
    IF msgs = <<>> THEN st
    ELSE IF Head(msgs).type = "Shutdown"
         THEN [st EXCEPT !.quit = TRUE, !.dispatched = Append(@, Head(msgs))]
         ELSE dispatch([st EXCEPT !.groups = dispatch_one(@, Head(msgs)),
                                  !.dispatched = Append(@, Head(msgs)),
                                  !.cleared = @ \/ Head(msgs).type = "DropAll"], Tail(msgs))

\* mix(src, buf) for every source: the sources in ends reach the end of
\* their stream in this callback
stream_ready_write(gs, ends) ==
    [i \in 1..Len(gs) |->
        [gs[i] EXCEPT !.group.sources =
            [j \in 1..Len(@) |->
                IF @[j].id \in ends /\ @[j].stream_state = "Streaming"
                THEN [@[j] EXCEPT !.stream_state = "Complete"] ELSE @[j]]]]

\* the periodic cleanup: drop the completed sources of every group
cleanup(gs) ==
    [i \in 1..Len(gs) |-> [gs[i] EXCEPT !.group = drop_completed_sources(@)]]

\* the number of sources in all groups
RECURSIVE sources_playing(_)
sources_playing(gs) ==
    IF gs = <<>> THEN 0 ELSE Len(Head(gs).group.sources) + sources_playing(Tail(gs))

----------------------------------------------------------------------------
(* The mixer thread and its client as a state machine *)

\* the most messages the client sends
MaxSent == 2

MixerSpecs == {AudioSpec(6, 2), AudioSpec(3, 1)}

\* the spec field of a message that carries no source
NoSpec == AudioSpec(0, 0)

\* what the client may send; a source gets its id when it is sent
MixerMessages ==
    {[type |-> "Shutdown", spec |-> NoSpec], [type |-> "DropAll", spec |-> NoSpec]}
    \cup {[type |-> t, spec |-> sp] : t \in {"PlaySymphoniaSource", "CreatePulledSource"},
                                      sp \in MixerSpecs}

\* the sources that may reach their end in one write callback
SourceIds == 1..MaxSent

NoBatch == [result |-> "none", batch |-> <<>>, written |-> FALSE]

\* the thread has entered its main loop
InitMixer ==
    /\ SequenceIdle
    /\ ExtIdle
    /\ SampleSetIdle
    /\ RendererNew
    /\ ExportIdle
    /\ SourceIdle
    /\ GroupIdle
    /\ last_op = "new"
    /\ command_rx = <<>>
    /\ command_tx_alive = TRUE
    /\ mixer_pc = "iterate"
    /\ messages = <<>>
    /\ groups = NoGroups
    /\ stream_created = FALSE
    /\ stream_asked_connect = FALSE
    /\ sent = <<>>
    /\ applied = <<>>
    /\ last_batch = NoBatch
    /\ loop_exit = "none"
    /\ teardown_log = <<>>
    /\ num_retained_out = 0

\* tx.send(message)
MixerClientSends(message) ==
    /\ command_tx_alive
    /\ mixer_pc # "exited"
    /\ Len(sent) < MaxSent
    /\ LET m == [type |-> message.type, spec |-> message.spec, id |-> Len(sent) + 1]
       IN  /\ command_rx' = Append(command_rx, m)
           /\ sent' = Append(sent, m)
    /\ last_op' = "send"
    /\ UNCHANGED <<rvars, svars, gvars, qvars, xvars, command_tx_alive, mixer_pc, messages, groups,
                   stream_created, stream_asked_connect, applied, last_batch, loop_exit,
                   teardown_log, num_retained_out>>

\* the client drops the sender
MixerClientDrops ==
    /\ command_tx_alive
    /\ command_tx_alive' = FALSE
    /\ last_op' = "drop_sender"
    /\ UNCHANGED <<rvars, svars, gvars, qvars, xvars, command_rx, mixer_pc, messages, groups,
                   stream_created, stream_asked_connect, sent, applied, last_batch, loop_exit,
                   teardown_log, num_retained_out>>

\* pa_mainloop.iterate(false) and the stream connection: the context
\* callback may create the stream (appears), the write callback may run on
\* a connected stream (writes), connect_playback may succeed (connect_ok)
Iterate(appears, writes, connect_ok, ends) ==
    /\ mixer_pc = "iterate"
    /\ LET written == writes /\ stream_asked_connect
       IN  /\ groups' = IF written THEN stream_ready_write(groups, ends) ELSE groups
           /\ last_batch' = IF written THEN [last_batch EXCEPT !.written = TRUE]
                            ELSE last_batch
           /\ last_op' = IF written THEN "iterate_write" ELSE "iterate"
    /\ stream_created' = (stream_created \/ appears)
    /\ stream_asked_connect' = IF stream_created' /\ ~stream_asked_connect
                               THEN connect_ok ELSE stream_asked_connect
    /\ mixer_pc' = "recv_timeout"
    /\ UNCHANGED <<rvars, svars, gvars, qvars, xvars, command_rx, command_tx_alive, messages, sent, applied,
                   loop_exit, teardown_log, num_retained_out>>

\* recv_all: rx.recv_timeout(timeout)
RecvTimeout ==
    /\ mixer_pc = "recv_timeout"
    /\ IF command_rx # <<>>
       THEN /\ messages' = <<Head(command_rx)>>
            /\ command_rx' = Tail(command_rx)
            /\ mixer_pc' = "try_recv"
            /\ UNCHANGED <<last_batch, loop_exit>>
       ELSE IF command_tx_alive
       THEN /\ last_batch' = [result |-> "None", batch |-> <<>>, written |-> FALSE]
            /\ mixer_pc' = "cleanup"
            /\ UNCHANGED <<messages, command_rx, loop_exit>>
       ELSE /\ last_batch' = [result |-> "Disconnected", batch |-> <<>>, written |-> FALSE]
            /\ loop_exit' = "Disconnected"
            /\ mixer_pc' = "disconnect_stream"
            /\ UNCHANGED <<messages, command_rx>>
    /\ last_op' = "recv_timeout"
    /\ UNCHANGED <<rvars, svars, gvars, qvars, xvars, command_tx_alive, groups, stream_created,
                   stream_asked_connect, sent, applied, teardown_log, num_retained_out>>

\* recv_all: one turn of while !quit { match rx.try_recv() { .. } } and the
\* return that follows the last turn
TryRecv ==
    /\ mixer_pc = "try_recv"
    /\ IF command_rx # <<>>
       THEN /\ messages' = messages_push(messages, Head(command_rx))
            /\ command_rx' = Tail(command_rx)
            /\ UNCHANGED <<mixer_pc, last_batch, loop_exit>>
       ELSE IF command_tx_alive
       THEN /\ last_batch' = [result |-> "Some", batch |-> messages, written |-> FALSE]
            /\ mixer_pc' = "dispatch"
            /\ UNCHANGED <<messages, command_rx, loop_exit>>
       ELSE /\ last_batch' = [result |-> "Disconnected", batch |-> <<>>, written |-> FALSE]
            /\ messages' = <<>>
            /\ loop_exit' = "Disconnected"
            /\ mixer_pc' = "disconnect_stream"
            /\ UNCHANGED command_rx
    /\ last_op' = "try_recv"
    /\ UNCHANGED <<rvars, svars, gvars, qvars, xvars, command_tx_alive, groups, stream_created,
                   stream_asked_connect, sent, applied, teardown_log, num_retained_out>>

\* Ok(Some(messages)) => for message in messages { .. }, then if quit { break }
Dispatch ==
    /\ mixer_pc = "dispatch"
    /\ LET res == dispatch([groups |-> groups, dispatched |-> <<>>, quit |-> FALSE,
                            cleared |-> FALSE], messages)
       IN  /\ groups' = res.groups
           /\ applied' = applied \o res.dispatched
           /\ num_retained_out' = IF res.cleared THEN 0 ELSE num_retained_out
           /\ loop_exit' = IF res.quit THEN "Shutdown" ELSE loop_exit
           /\ mixer_pc' = IF res.quit THEN "disconnect_stream" ELSE "cleanup"
    /\ messages' = <<>>
    /\ last_op' = "dispatch"
    /\ UNCHANGED <<rvars, svars, gvars, qvars, xvars, command_rx, command_tx_alive, stream_created,
                   stream_asked_connect, sent, last_batch, teardown_log>>

\* if since_cleanup.elapsed().as_millis() >= 1000 { .. }
Cleanup(elapsed) ==
    /\ mixer_pc = "cleanup"
    /\ groups' = IF elapsed THEN cleanup(groups) ELSE groups
    /\ num_retained_out' = num_retained_out
                             + (sources_playing(groups) - sources_playing(groups'))
    /\ mixer_pc' = "iterate"
    /\ last_op' = "cleanup"
    /\ UNCHANGED <<rvars, svars, gvars, qvars, xvars, command_rx, command_tx_alive, messages, stream_created,
                   stream_asked_connect, sent, applied, last_batch, loop_exit, teardown_log>>

\* if stream_asked_connect { pa_stream.disconnect() }
DisconnectStream ==
    /\ mixer_pc = "disconnect_stream"
    /\ teardown_log' = IF stream_asked_connect
                       THEN Append(teardown_log, "stream.disconnect") ELSE teardown_log
    /\ mixer_pc' = "disconnect_context"
    /\ last_op' = "disconnect_stream"
    /\ UNCHANGED <<rvars, svars, gvars, qvars, xvars, command_rx, command_tx_alive, messages, groups,
                   stream_created, stream_asked_connect, sent, applied, last_batch, loop_exit,
                   num_retained_out>>

\* pa_context.disconnect(); pa_mainloop.quit(Retval(0)); the thread returns
DisconnectContext ==
    /\ mixer_pc = "disconnect_context"
    /\ teardown_log' = Append(teardown_log, "context.disconnect")
    /\ mixer_pc' = "exited"
    /\ last_op' = "disconnect_context"
    /\ UNCHANGED <<rvars, svars, gvars, qvars, xvars, command_rx, command_tx_alive, messages, groups,
                   stream_created, stream_asked_connect, sent, applied, last_batch, loop_exit,
                   num_retained_out>>

MixerThread ==
    \/ \E appears \in BOOLEAN, writes \in BOOLEAN, connect_ok \in BOOLEAN,
          ends \in SUBSET SourceIds : Iterate(appears, writes, connect_ok, ends)
    \/ RecvTimeout
    \/ TryRecv
    \/ Dispatch
    \/ \E elapsed \in BOOLEAN : Cleanup(elapsed)
    \/ DisconnectStream
    \/ DisconnectContext

NextMixer ==
    \/ \E message \in MixerMessages : MixerClientSends(message)
    \/ MixerClientDrops
    \/ \E appears \in BOOLEAN, writes \in BOOLEAN, connect_ok \in BOOLEAN,
          ends \in SUBSET SourceIds : Iterate(appears, writes, connect_ok, ends)
    \/ RecvTimeout
    \/ TryRecv
    \/ Dispatch
    \/ \E elapsed \in BOOLEAN : Cleanup(elapsed)
    \/ DisconnectStream
    \/ DisconnectContext

SpecMixer == InitMixer /\ [][NextMixer]_vars

\* the mixer thread is an OS thread of its own: it keeps taking steps
FairSpecMixer == SpecMixer /\ WF_vars(MixerThread)

----------------------------------------------------------------------------
(* Properties of the mixer *)

\* the messages dispatched since the last DropAll
RECURSIVE since_drop_all(_)
since_drop_all(msgs) ==
    IF msgs = <<>> THEN <<>>
    ELSE IF msgs[Len(msgs)].type = "DropAll" THEN <<>>
    ELSE Append(since_drop_all(SubSeq(msgs, 1, Len(msgs) - 1)), msgs[Len(msgs)])

\* the sources enqueued since the last DropAll, in order
enqueued ==
    SelectSeq(since_drop_all(applied),
              LAMBDA m : m.type \in {"PlaySymphoniaSource", "CreatePulledSource"})

\* the sources enqueued with the given spec, in order
enqueued_with(key) == SelectSeq(enqueued, LAMBDA m : m.spec = key)

\* the ids of the members of a group, in order
member_ids(group) == [j \in 1..Len(group.sources) |-> group.sources[j].id]

received == SubSeq(sent, 1, Len(sent) - Len(command_rx))

\* the messages dispatched are the first messages sent, in send order
AppliedInSendOrder ==
    /\ Len(applied) <= Len(sent)
    /\ applied = SubSeq(sent, 1, Len(applied))

\* recv_all returning a batch returns every message sent and not yet
\* dispatched, in send order, and leaves nothing in the channel
BatchIsAllPending ==
    (last_op' = "try_recv" /\ mixer_pc' = "dispatch") =>
        /\ last_batch'.result = "Some"
        /\ last_batch'.batch = SubSeq(sent, Len(applied) + 1, Len(sent))
        /\ command_rx' = <<>>

\* recv_all timing out returns nothing and takes nothing
TimeoutTakesNothing ==
    (last_op' = "recv_timeout" /\ mixer_pc' = "cleanup") =>
        /\ last_batch'.result = "None"
        /\ command_rx = <<>> /\ command_rx' = <<>>
        /\ messages' = <<>>

\* the dispatch loop matches the messages of the batch in order, up to and
\* including the first Shutdown
BatchAppliedInOrder ==
    last_op' = "dispatch" =>
        \E n \in 0..Len(messages) :
            /\ applied' = applied \o SubSeq(messages, 1, n)
            /\ \A i \in 1..(n - 1) : messages[i].type # "Shutdown"
            /\ n < Len(messages) => messages[n].type = "Shutdown"
            /\ n = 0 => messages = <<>>

\* a write callback runs only when every message received was dispatched
WriteAfterWholeBatch ==
    last_op' = "iterate_write" => (messages = <<>> /\ applied = received)

\* C13: command messages are dispatched in arrival order: recv_all returns
\* all pending messages in the order they were sent (nothing when none
\* arrives within the timeout), and the mixer applies one batch in that
\* order within one loop iteration, before any later write callback runs.
C13_DispatchInArrivalOrder ==
    /\ []AppliedInSendOrder
    /\ [][BatchIsAllPending]_vars
    /\ [][TimeoutTakesNothing]_vars
    /\ [][BatchAppliedInOrder]_vars
    /\ [][WriteAfterWholeBatch]_vars

\* C13 witness: a write callback has run after a batch of two different
\* messages was dispatched
C13_Witness ==
    /\ last_batch.result = "Some"
    /\ Len(last_batch.batch) = 2
    /\ last_batch.batch[1].type # last_batch.batch[2].type
    /\ last_batch.written
    /\ applied = last_batch.batch

\* a Shutdown message was dispatched
ShutdownDispatched == \E i \in 1..Len(applied) : applied[i].type = "Shutdown"

\* the thread is past its main loop
InTeardown == mixer_pc \in {"disconnect_stream", "disconnect_context", "exited"}

\* what the thread does after the loop, in order
teardown_expected ==
    (IF stream_asked_connect THEN <<"stream.disconnect">> ELSE <<>>)
        \o <<"context.disconnect">>

\* once the loop is left (by Shutdown or by a disconnected channel) no
\* message is dispatched and no source is added, removed or mixed
NoDispatchAfterExit ==
    loop_exit # "none" =>
        /\ applied' = applied
        /\ groups' = groups
        /\ loop_exit' = loop_exit
        /\ stream_asked_connect' = stream_asked_connect

\* Shutdown is the last message dispatched and takes the thread to its teardown
ShutdownIsLast ==
    ShutdownDispatched =>
        /\ applied[Len(applied)].type = "Shutdown"
        /\ \A i \in 1..(Len(applied) - 1) : applied[i].type # "Shutdown"
        /\ loop_exit = "Shutdown"
        /\ InTeardown

\* the teardown goes in order: the stream (if its connection was asked
\* for), then the context, then the thread exits
TeardownInOrder ==
    /\ InTeardown <=> loop_exit \in {"Shutdown", "Disconnected"}
    /\ mixer_pc = "disconnect_stream" => teardown_log = <<>>
    /\ mixer_pc = "disconnect_context" =>
           teardown_log = SubSeq(teardown_expected, 1, Len(teardown_expected) - 1)
    /\ mixer_pc = "exited" => teardown_log = teardown_expected
    /\ ~InTeardown => teardown_log = <<>>

\* C14: after a Shutdown message is dispatched the mixer thread leaves its
\* main loop without dispatching any later message and tears down in order:
\* the stream is disconnected (if it had been connected), the context is
\* disconnected, the thread exits; the same teardown happens when the
\* command channel is disconnected.
C14_ShutdownTeardown ==
    /\ []ShutdownIsLast
    /\ []TeardownInOrder
    /\ [][NoDispatchAfterExit]_vars
    /\ (loop_exit # "none") ~> (mixer_pc = "exited")

\* C14 witness: the thread has exited after a Shutdown that came in one
\* batch with a later message, which was not dispatched; the stream had
\* been connected and was disconnected before the context
C14_Witness ==
    /\ mixer_pc = "exited"
    /\ loop_exit = "Shutdown"
    /\ Len(sent) = 2 /\ command_rx = <<>>
    /\ last_batch.batch = sent
    /\ applied = <<sent[1]>>
    /\ teardown_log = <<"stream.disconnect", "context.disconnect">>

----------------------------------------------------------------------------
(* The drum render thread after Shutdown *)

\* a step of the drum render thread
IsThreadStep == last_op' \in {"thread_control", "thread_pull", "thread_push", "thread_timeout"}

\* after the shutdown request the thread applies no control message and
\* pushes no audio
ShutdownRequestIsFinal ==
    (shutdown_request /\ IsThreadStep) =>
        /\ shutdown_request'
        /\ paused' = paused
        /\ buffer_rx' = buffer_rx

\* after the shutdown request the thread answers a pull request with
\* Disconnect and exits, or exits without answering once the timeout passed
ShutdownAnswersDisconnect ==
    (shutdown_request /\ last_op' = "thread_pull") =>
        IF pull_request_chan # <<>>
        THEN /\ pc' = "exited"
             /\ pull_request_chan' = Tail(pull_request_chan)
             /\ ~source_dropped =>
                    pull_response_chan' =
                        Append(pull_response_chan, [kind |-> "Disconnect", frames |-> 0])
        ELSE pull_response_chan' = pull_response_chan

\* no reply other than Disconnect follows the shutdown request
ShutdownExitsByTimeout ==
    (shutdown_request /\ last_op' = "thread_timeout") =>
        /\ pull_response_chan' = pull_response_chan
        /\ shutdown_age >= shutdown_timeout => pc' = "exited"

\* C15: after the drum render thread receives Shutdown it applies no
\* further control message and renders or pushes no further audio; it
\* answers the next pull request with Disconnect and exits, or, if none
\* arrives, exits once 3 seconds have passed; in every interleaving of
\* control messages and pull requests the thread eventually exits.
C15_ShutdownTerminates ==
    /\ [][ShutdownRequestIsFinal]_vars
    /\ [][ShutdownAnswersDisconnect]_vars
    /\ [][ShutdownExitsByTimeout]_vars
    /\ shutdown_request ~> (pc = "exited")

\* C15 witness: the thread has exited on a pull request that it answered
\* with Disconnect, after a control message that came after Shutdown was
\* received and not applied
C15_Witness ==
    /\ pc = "exited"
    /\ shutdown_request
    /\ warned
    /\ last_op = "thread_pull"
    /\ pull_response_chan # <<>>
    /\ pull_response_chan[Len(pull_response_chan)].kind = "Disconnect"

----------------------------------------------------------------------------
(* Step events of the renderer *)

\* a render call that returned
RenderReturned == last_op' = "render" /\ num_ops' = num_ops + 1 /\ panicked' = NoPanic

\* the events of a render call continue the play order: the first event
\* after the sequence was initialised has step 0, every other event has
\* the step after the one before it, modulo the length of the sequence,
\* and the times of the events of one call do not decrease
EventsInPlayOrder ==
    RenderReturned =>
        LET events == render_ret'.events
            n == len(sequence')
        IN  /\ previous_event_step = None => events # <<>>
            /\ events # <<>> =>
                   events[1].step = IF previous_event_step = None THEN 0
                                    ELSE (previous_event_step + 1) % n
            /\ \A i \in 1..(Len(events) - 1) :
                   /\ events[i + 1].step = (events[i].step + 1) % n
                   /\ events[i].time <= events[i + 1].time

\* C16: step events are emitted in play order: the first event after the
\* sequence is (re)initialised has step 0, each following event's step is
\* (previous + 1) mod len, and event times do not decrease within one
\* render call.
C16_EventsInPlayOrder == [][EventsInPlayOrder]_vars

\* C16 witness: a render call that continued an earlier one returned
\* events that wrap from the last step of the sequence to step 0
C16_Witness ==
    /\ last_op = "render"
    /\ panicked = NoPanic
    /\ frames_since_init > (Len(render_ret.events) + 1) * 4
    /\ \E i \in 1..(Len(render_ret.events) - 1) :
           /\ render_ret.events[i].step = len(sequence) - 1
           /\ render_ret.events[i + 1].step = 0
           /\ render_ret.events[i].time < render_ret.events[i + 1].time

\* frames per step of a sequence without swing, in ticks
ticks_per_step(seq) ==
    samples_per_note(seq.timespec, output_samplerate, seq.step_base_length)

\* with no swing and the timespec unchanged since the sequence was
\* initialised, the k-th event since then has step k mod len and comes
\* after floor(k * frames per step) frames, counted across render calls:
\* the fraction of a frame that a step leaves is carried to the next step
EventsOnTheGrid ==
    (RenderReturned /\ ~retimed_since_init' /\ sequence'.timespec.swing = 0) =>
        \A i \in 1..Len(render_ret'.events) :
            LET k == previous_events + i - 1
                event == render_ret'.events[i]
            IN  /\ event.step = k % len(sequence')
                /\ previous_frames + event.time
                       = (k * ticks_per_step(sequence')) \div TicksPerFrame

\* C17: at 120 BPM, 4/4, sixteenth steps, swing 0 the renderer plays all 16
\* steps and wraps to step 0 after exactly 16 steps' worth of frames
\* (88200 at 44100 Hz; 24 at the model's rate), counted from the
\* initialisation across render calls: the fractional step length is
\* carried over, not truncated per step.
C17_BarLengthExact == [][EventsOnTheGrid]_vars

\* C17 witness: the default sequence (120 BPM, 4/4, 16 sixteenth steps, no
\* swing) has wrapped to step 0 after 16 steps, 24 frames after its
\* initialisation, which took several render calls
C17_Witness ==
    /\ last_op = "render"
    /\ panicked = NoPanic
    /\ ~retimed_since_init
    /\ sequence.timespec = DrumkitSequence_default.timespec
    /\ len(sequence) = 16
    /\ events_since_init = 17
    /\ last_event_step = 0
    /\ frames_since_init = 24
    /\ frames_since_init * TicksPerFrame = len(sequence) * ticks_per_step(sequence)

----------------------------------------------------------------------------
(* A DrumkitSequence under edit as a state machine *)

\* the sequences that DrumkitSequence::new makes: 16, 8, 6, 3, 4 and 0 steps
NewSequences ==
    {DrumkitSequence_new(TimeSpecOf(bpm, sig[1], sig[2], 0), note) :
        bpm \in Tempi, sig \in {<<4, 4>>, <<3, 8>>, <<4, 16>>},
        note \in {"Sixteenth", "Eighth"}}

\* steps that edits and length calls name: 16 is a step of no sequence here
SeqSteps == {0, 1, 16}

SeqLens == {0, 2, 3}

SeqAmplitudes == {1, 2}

Samplerates == {12, 24}

InitSequence ==
    /\ ExtIdle
    /\ SampleSetIdle
    /\ RendererNew
    /\ ExportIdle
    /\ SourceIdle
    /\ GroupIdle
    /\ MixerIdle
    /\ last_op = "new"
    /\ drumkit_sequence \in NewSequences
    /\ last_edit = NoEdit
    /\ last_step_length = NoStepLength

\* an edit of the sequence
Edited(seq, op, n, label, amp) ==
    /\ drumkit_sequence' = seq
    /\ last_edit' = [op |-> op, n |-> n, label |-> label, amp |-> amp]
    /\ last_step_length' = NoStepLength
    /\ last_op' = op

SeqSetTimespec(bpm, swing) ==
    /\ Edited(set_timespec(drumkit_sequence,
                           [drumkit_sequence.timespec EXCEPT !.bpm = bpm, !.swing = swing]),
              "set_timespec", 0, "none", 0)
    /\ UNCHANGED <<rvars, svars, gvars, mvars, xvars>>

SeqSetLen(n) ==
    /\ Edited(set_len(drumkit_sequence, n), "set_len", n, "none", 0)
    /\ UNCHANGED <<rvars, svars, gvars, mvars, xvars>>

SeqClear ==
    /\ Edited(clear(drumkit_sequence), "clear", 0, "none", 0)
    /\ UNCHANGED <<rvars, svars, gvars, mvars, xvars>>

SeqClearStep(n) ==
    /\ Edited(clear_step(drumkit_sequence, n), "clear_step", n, "none", 0)
    /\ UNCHANGED <<rvars, svars, gvars, mvars, xvars>>

SeqSetStepTrigger(n, label, amp) ==
    /\ Edited(set_step_trigger(drumkit_sequence, n, label, amp),
              "set_step_trigger", n, label, amp)
    /\ UNCHANGED <<rvars, svars, gvars, mvars, xvars>>

SeqUnsetStepTrigger(n, label) ==
    /\ Edited(unset_step_trigger(drumkit_sequence, n, label),
              "unset_step_trigger", n, label, 0)
    /\ UNCHANGED <<rvars, svars, gvars, mvars, xvars>>

\* step(n).map(|step| step.length_in_samples(rate))
SeqStepLength(n, rate) ==
    /\ last_step_length' =
           [n |-> n, rate |-> rate, some |-> step_is_some(drumkit_sequence, n),
            length |-> IF step_is_some(drumkit_sequence, n)
                       THEN length_in_samples(drumkit_sequence, n, rate) ELSE 0]
    /\ last_edit' = NoEdit
    /\ last_op' = "step"
    /\ UNCHANGED <<rvars, svars, gvars, mvars, xvars, drumkit_sequence>>

NextSequence ==
    \/ \E bpm \in Tempi, swing \in Swings : SeqSetTimespec(bpm, swing)
    \/ \E n \in SeqLens : SeqSetLen(n)
    \/ SeqClear
    \/ \E n \in SeqSteps : SeqClearStep(n)
    \/ \E n \in SeqSteps, label \in Labels, amp \in SeqAmplitudes :
           SeqSetStepTrigger(n, label, amp)
    \/ \E n \in SeqSteps, label \in Labels : SeqUnsetStepTrigger(n, label)
    \/ \E n \in SeqSteps, rate \in Samplerates : SeqStepLength(n, rate)

SpecSequence == InitSequence /\ [][NextSequence]_vars

----------------------------------------------------------------------------
(* Properties of the DrumkitSequence *)

\* samples_per_note(rate, base) of the sequence, in ticks
base_length(rate) ==
    samples_per_note(drumkit_sequence.timespec, rate, drumkit_sequence.step_base_length)

\* C18: for every step n of a sequence, step(n).length_in_samples(rate) is
\* samples_per_note(rate, base) * (1 + swing) when n is even and
\* samples_per_note(rate, base) * (1 - swing) when n is odd (with swing 0.5
\* the steps alternate between 1.5 and 0.5 times the base length).
C18_SwingStepLength ==
    (last_op = "step" /\ last_step_length.some) =>
        last_step_length.length * SwingDen
            = base_length(last_step_length.rate)
                  * (IF last_step_length.n % 2 = 0
                     THEN SwingDen + drumkit_sequence.timespec.swing
                     ELSE SwingDen - drumkit_sequence.timespec.swing)

\* C18 witness: the length of an odd step of a sequence with swing 0.5 was
\* taken and is half the base length
C18_Witness ==
    /\ last_op = "step"
    /\ last_step_length.some
    /\ last_step_length.n = 1
    /\ drumkit_sequence.timespec.swing = 1
    /\ last_step_length.length * 2 = base_length(last_step_length.rate)
    /\ last_step_length.length > 0

\* the sum of the lengths of the steps 0..(n - 1), in ticks
RECURSIVE total_length(_, _, _)
total_length(seq, n, rate) ==
    IF n = 0 THEN 0
    ELSE total_length(seq, n - 1, rate) + length_in_samples(seq, n - 1, rate)

\* C19: swing preserves the total duration of a sequence: for swing in
\* (0, 1) the lengths of all steps add up to len * samples_per_note(rate,
\* base), the total of the same sequence without swing.
C19_SwingPreservesTotal ==
    \A rate \in Samplerates :
        drumkit_sequence.timespec.swing \in 1..(SwingDen - 1) =>
            total_length(drumkit_sequence, len(drumkit_sequence), rate)
                = len(drumkit_sequence) * base_length(rate)

\* every step holds at most one trigger per label
OneTriggerPerLabel ==
    \A i \in 1..Len(drumkit_sequence.steps) :
        \A a, b \in 1..Len(drumkit_sequence.steps[i]) :
            drumkit_sequence.steps[i][a].label = drumkit_sequence.steps[i][b].label => a = b

\* set_step_trigger(n, label, amp) on an existing step leaves exactly one
\* trigger for the label at step n, with the amplitude given, and leaves
\* the triggers of other labels and the other steps as they were
SetByLabel ==
    (last_op' = "set_step_trigger" /\ last_edit'.n < Len(drumkit_sequence.steps)) =>
        LET n == last_edit'.n + 1
            before == drumkit_sequence.steps[n]
            after == drumkit_sequence'.steps[n]
            others(v) == SelectSeq(v, LAMBDA t : t.label # last_edit'.label)
            mine(v) == SelectSeq(v, LAMBDA t : t.label = last_edit'.label)
        IN  /\ mine(after) = <<[label |-> last_edit'.label, amplitude |-> last_edit'.amp]>>
            /\ others(after) = others(before)
            /\ Len(drumkit_sequence'.steps) = Len(drumkit_sequence.steps)
            /\ \A i \in 1..Len(drumkit_sequence.steps) :
                   i # n => drumkit_sequence'.steps[i] = drumkit_sequence.steps[i]
            /\ drumkit_sequence'.timespec = drumkit_sequence.timespec

\* C20: set-by-label semantics: after any sequence of edits every step
\* holds at most one trigger per label, and set_step_trigger(n, label, amp)
\* on an existing step leaves exactly one trigger for that label at step n,
\* with the most recently set amplitude, without changing the triggers of
\* other labels or other steps.
C20_SetByLabel ==
    /\ []OneTriggerPerLabel
    /\ [][SetByLabel]_vars

\* C20 witness: a label was set again with another amplitude on a step
\* that also holds a trigger of another label, while another step holds one
\* of the same label: two triggers at the step, the newer amplitude
C20_Witness ==
    /\ last_op = "set_step_trigger"
    /\ last_edit = [op |-> "set_step_trigger", n |-> 0, label |-> "BassDrum", amp |-> 2]
    /\ len(drumkit_sequence) >= 2
    /\ drumkit_sequence.steps[1] = <<[label |-> "SnareDrum", amplitude |-> 1],
                                     [label |-> "BassDrum", amplitude |-> 2]>>
    /\ drumkit_sequence.steps[2] = <<[label |-> "BassDrum", amplitude |-> 1]>>

----------------------------------------------------------------------------
(* audiothread/src/ext.rs: the iterator adapters, applied to one stream *)

MaxExtLen == 6
MaxDoublings == 3
MaxExtSamples == 24

\* streams of distinct sample values
ExtStreams == {[i \in 1..n |-> i] : n \in 0..MaxExtLen}

ExtFroms == 1..3
ExtTos == 0..2

InitExt ==
    /\ RendererNew
    /\ ExportIdle
    /\ SourceIdle
    /\ GroupIdle
    /\ MixerIdle
    /\ SequenceIdle
    /\ SampleSetIdle
    /\ last_op = "new"
    /\ ext_in \in ExtStreams
    /\ ext_out = ext_in
    /\ ext_last = NoExt

\* a caller makes another stream
ExtNew(smpls) ==
    /\ ext_in' = smpls
    /\ ext_out' = smpls
    /\ ext_last' = NoExt
    /\ last_op' = "new"
    /\ UNCHANGED <<rvars, svars, gvars, mvars, qvars, jvars, sample_set, last_result>>

\* iter.doubled()
ExtDoubled ==
    /\ ~ext_last.panicked
    /\ ext_last.k < MaxDoublings
    /\ 2 * Len(ext_out) <= MaxExtSamples
    /\ ext_out' = doubled(ext_out)
    /\ ext_last' = [NoExt EXCEPT !.op = "doubled", !.k = ext_last.k + 1, !.src = ext_out]
    /\ last_op' = "doubled"
    /\ UNCHANGED <<rvars, svars, gvars, mvars, qvars, jvars, sample_set, last_result, ext_in>>

\* iter.drop_channels(from, to): the assertion from > to panics otherwise;
\* the result is the start of the next run of doublings
ExtDropChannels(from, to) ==
    /\ ~ext_last.panicked
    /\ IF from > to
       THEN /\ ext_out' = drop_channels(ext_out, from, to)
            /\ ext_in' = ext_out'
            /\ ext_last' = [NoExt EXCEPT !.op = "drop_channels", !.from = from, !.to = to,
                                         !.src = ext_out]
       ELSE /\ ext_last' = [NoExt EXCEPT !.op = "drop_channels", !.from = from, !.to = to,
                                         !.src = ext_out, !.panicked = TRUE]
            /\ UNCHANGED <<ext_in, ext_out>>
    /\ last_op' = "drop_channels"
    /\ UNCHANGED <<rvars, svars, gvars, mvars, qvars, jvars, sample_set, last_result>>

NextExt ==
    \/ \E smpls \in ExtStreams : ExtNew(smpls)
    \/ ExtDoubled
    \/ \E from \in ExtFroms, to \in ExtTos : ExtDropChannels(from, to)

SpecExt == InitExt /\ [][NextExt]_vars

\* 2^k
Pow2(k) == 2 ^ k

\* C25: doubled applied k times to a stream of L samples yields L * 2^k
\* samples, each input sample repeated 2^k times consecutively and in order;
\* drop_channels(from, to) with from > to on L * from samples yields L * to
\* samples, exactly those at the indices i with i mod from < to, in order.
C25_DoubledAndDropped ==
    /\ ext_last.op = "doubled" =>
           /\ Len(ext_out) = Len(ext_in) * Pow2(ext_last.k)
           /\ \A i \in 0..(Len(ext_out) - 1) :
                  ext_out[i + 1] = ext_in[(i \div Pow2(ext_last.k)) + 1]
    /\ (/\ ext_last.op = "drop_channels"
        /\ ext_last.from > ext_last.to
        /\ Len(ext_last.src) % ext_last.from = 0) =>
           /\ Len(ext_out) = (Len(ext_last.src) \div ext_last.from) * ext_last.to
           /\ \A j \in 0..(Len(ext_out) - 1) :
                  ext_out[j + 1] =
                      ext_last.src[(j \div ext_last.to) * ext_last.from
                                       + (j % ext_last.to) + 1]

\* C25 witness: a stream of two 3-channel frames cut to two channels, then
\* doubled twice
C25_Witness ==
    /\ ext_last.op = "doubled"
    /\ ext_last.k = 2
    /\ ext_in = <<1, 2, 4, 5>>
    /\ ext_out = <<1, 1, 1, 1, 2, 2, 2, 2, 4, 4, 4, 4, 5, 5, 5, 5>>

\* a stream of two 3-channel frames cut to two channels
C25_Dropped ==
    /\ ext_last.op = "drop_channels"
    /\ ext_last.from = 3
    /\ ext_last.to = 2
    /\ ext_last.src = <<1, 2, 3, 4, 5, 6>>
    /\ ext_out = <<1, 2, 4, 5>>

----------------------------------------------------------------------------
(* libasampo/src/samplesets/mod.rs: BaseSampleSet *)

\* SampleSetOps::contains
contains(set, sample) == set[sample].present

\* SampleSetOps::add_with_hash: inserts, or replaces, the entry of the sample
add_with_hash(set, sample, hash) ==
    [set EXCEPT ![sample] = [present |-> TRUE, label |-> "none", audio_hash |-> hash]]

\* SampleSetOps::add: `hashed` is what audio_hash(source.stream(sample)) gave,
\* "err" when the stream or the hashing failed
add(set, sample, hashed) ==
    IF hashed = "err"
    THEN [set |-> set, ok |-> FALSE, value |-> "none"]
    ELSE [set |-> add_with_hash(set, sample, hashed), ok |-> TRUE, value |-> "none"]

\* a remove that forgets the label and keeps the entry
remove_label_only(set, sample) ==
    IF set[sample].present
    THEN [set |-> [set EXCEPT ![sample].label = "none"], ok |-> TRUE, value |-> "none"]
    ELSE [set |-> set, ok |-> FALSE, value |-> "none"]

\* SampleSetOps::remove
remove(set, sample) ==
    IF set[sample].present
    THEN [set |-> [set EXCEPT ![sample] = Absent], ok |-> TRUE, value |-> "none"]
    ELSE [set |-> set, ok |-> FALSE, value |-> "none"]

\* SampleSetOps::cached_audio_hash_of
cached_audio_hash_of(set, sample) ==
    IF set[sample].present
    THEN [set |-> set, ok |-> TRUE, value |-> set[sample].audio_hash]
    ELSE [set |-> set, ok |-> FALSE, value |-> "none"]

\* SampleSetOps::set_label: the label "none" is Option::None
set_label(set, sample, label) ==
    IF contains(set, sample)
    THEN [set |-> [set EXCEPT ![sample].label = label], ok |-> TRUE, value |-> "none"]
    ELSE [set |-> set, ok |-> FALSE, value |-> "none"]

\* SampleSetOps::get_label
get_label(set, sample) ==
    IF set[sample].present
    THEN [set |-> set, ok |-> TRUE, value |-> set[sample].label]
    ELSE [set |-> set, ok |-> FALSE, value |-> "none"]

\* SampleSetOps::clear_label: Ok(true) or Ok(false), never an error
clear_label(set, sample) ==
    IF set[sample].present
    THEN [set |-> [set EXCEPT ![sample].label = "none"], ok |-> TRUE, value |-> "true"]
    ELSE [set |-> set, ok |-> TRUE, value |-> "false"]

\* the audio hashes a source's stream can give
Hashes == {"abc123", "def456"}

InitSampleSet ==
    /\ RendererNew
    /\ ExportIdle
    /\ SourceIdle
    /\ GroupIdle
    /\ MixerIdle
    /\ SequenceIdle
    /\ ExtIdle
    /\ last_op = "new"
    /\ sample_set = BaseSampleSet_new
    /\ last_result = NoResult

\* one call on the set: the set and the result afterwards
Called(name, sample, res) ==
    /\ sample_set' = res.set
    /\ last_result' = [op |-> name, sample |-> sample, ok |-> res.ok, value |-> res.value]
    /\ last_op' = name

SampleSetAdd(sample, hashed) ==
    /\ Called("add", sample, add(sample_set, sample, hashed))
    /\ UNCHANGED <<rvars, svars, gvars, mvars, qvars, jvars, ext_in, ext_out, ext_last>>

SampleSetAddWithHash(sample, hash) ==
    /\ Called("add_with_hash", sample,
              [set |-> add_with_hash(sample_set, sample, hash), ok |-> TRUE, value |-> "none"])
    /\ UNCHANGED <<rvars, svars, gvars, mvars, qvars, jvars, ext_in, ext_out, ext_last>>

SampleSetRemove(sample) ==
    /\ Called("remove", sample, remove(sample_set, sample))
    /\ UNCHANGED <<rvars, svars, gvars, mvars, qvars, jvars, ext_in, ext_out, ext_last>>

SampleSetContains(sample) ==
    /\ Called("contains", sample,
              [set |-> sample_set, ok |-> TRUE,
               value |-> IF contains(sample_set, sample) THEN "true" ELSE "false"])
    /\ UNCHANGED <<rvars, svars, gvars, mvars, qvars, jvars, ext_in, ext_out, ext_last>>

SampleSetCachedAudioHashOf(sample) ==
    /\ Called("cached_audio_hash_of", sample, cached_audio_hash_of(sample_set, sample))
    /\ UNCHANGED <<rvars, svars, gvars, mvars, qvars, jvars, ext_in, ext_out, ext_last>>

SampleSetSetLabel(sample, label) ==
    /\ Called("set_label", sample, set_label(sample_set, sample, label))
    /\ UNCHANGED <<rvars, svars, gvars, mvars, qvars, jvars, ext_in, ext_out, ext_last>>

SampleSetGetLabel(sample) ==
    /\ Called("get_label", sample, get_label(sample_set, sample))
    /\ UNCHANGED <<rvars, svars, gvars, mvars, qvars, jvars, ext_in, ext_out, ext_last>>

SampleSetClearLabel(sample) ==
    /\ Called("clear_label", sample, clear_label(sample_set, sample))
    /\ UNCHANGED <<rvars, svars, gvars, mvars, qvars, jvars, ext_in, ext_out, ext_last>>

NextSampleSet ==
    \/ \E sample \in Samples, hashed \in Hashes \union {"err"} : SampleSetAdd(sample, hashed)
    \/ \E sample \in Samples, hash \in Hashes : SampleSetAddWithHash(sample, hash)
    \/ \E sample \in Samples : SampleSetRemove(sample)
    \/ \E sample \in Samples : SampleSetContains(sample)
    \/ \E sample \in Samples : SampleSetCachedAudioHashOf(sample)
    \/ \E sample \in Samples, label \in Labels \union {"none"} : SampleSetSetLabel(sample, label)
    \/ \E sample \in Samples : SampleSetGetLabel(sample)
    \/ \E sample \in Samples : SampleSetClearLabel(sample)

SpecSampleSet == InitSampleSet /\ [][NextSampleSet]_vars

\* a successful remove(s) leaves no entry for s and the other entries as
\* they were; remove, set_label, get_label and cached_audio_hash_of for a
\* sample the set does not hold return an error and leave the set unchanged
RemovedIsGone ==
    /\ (last_op' = "remove" /\ last_result'.ok) =>
           /\ contains(sample_set, last_result'.sample)
           /\ ~contains(sample_set', last_result'.sample)
           /\ sample_set'[last_result'.sample] = BaseSampleSet_new[last_result'.sample]
           /\ \A other \in Samples \ {last_result'.sample} :
                  sample_set'[other] = sample_set[other]
    /\ (/\ last_op' \in {"remove", "set_label", "get_label", "cached_audio_hash_of"}
        /\ ~contains(sample_set, last_result'.sample)) =>
           /\ ~last_result'.ok
           /\ sample_set' = sample_set

\* C26: removing a sample from a sample set also removes its cached audio
\* hash and its label: after remove(s), contains(s) is false, and remove,
\* set_label, get_label and cached_audio_hash_of for s (as for any sample
\* never added) each return an error and leave the set unchanged.
C26_RemoveForgets == [][RemovedIsGone]_vars

\* C26 witness: a sample was removed, the set no longer holds it, and the
\* other sample kept its label and its hash
C26_Witness ==
    /\ last_result = [op |-> "remove", sample |-> "s1", ok |-> TRUE, value |-> "none"]
    /\ ~contains(sample_set, "s1")
    /\ sample_set["s2"] = [present |-> TRUE, label |-> "SnareDrum", audio_hash |-> "abc123"]

\* C21: a newly constructed DrumkitSequence has exactly
\* signature.upper * (step_base_reciprocal / signature.lower) steps, all
\* without triggers, for every valid time signature and step base length.
C21_NewLength ==
    last_op = "new" =>
        /\ len(drumkit_sequence) * drumkit_sequence.timespec.lower
               = drumkit_sequence.timespec.upper
                     * reciprocal(drumkit_sequence.step_base_length)
        /\ \A i \in 1..len(drumkit_sequence) : drumkit_sequence.steps[i] = <<>>

\* set_len(n) with n > 0 makes the sequence n steps long, keeps the
\* triggers of the steps that remain and adds empty steps only; set_len(0)
\* leaves the sequence as it was
SetLenKeepsSteps ==
    last_op' = "set_len" =>
        IF last_edit'.n > 0
        THEN /\ len(drumkit_sequence') = last_edit'.n
             /\ \A i \in 1..last_edit'.n :
                    drumkit_sequence'.steps[i] =
                        IF i <= len(drumkit_sequence) THEN drumkit_sequence.steps[i] ELSE <<>>
             /\ drumkit_sequence'.timespec = drumkit_sequence.timespec
             /\ drumkit_sequence'.step_base_length = drumkit_sequence.step_base_length
        ELSE drumkit_sequence' = drumkit_sequence

\* C22: set_len(n) with n > 0 makes the sequence exactly n steps long,
\* keeping the triggers of every step that remains and adding only empty
\* steps at the end; set_len(0) is rejected and leaves the sequence unchanged.
C22_SetLen == [][SetLenKeepsSteps]_vars

\* C22 witness: a sequence of two steps with a trigger in each was made
\* three steps long and got an empty third step
C22_Witness ==
    /\ last_op = "set_len"
    /\ last_edit.n = 3
    /\ len(drumkit_sequence) = 3
    /\ drumkit_sequence.steps[1] # <<>>
    /\ drumkit_sequence.steps[2] # <<>>
    /\ drumkit_sequence.steps[3] = <<>>

\* clear_step(n) empties step n and leaves the rest; for n >= len it
\* changes nothing
ClearStepOnly ==
    last_op' = "clear_step" =>
        /\ len(drumkit_sequence') = len(drumkit_sequence)
        /\ \A i \in 1..len(drumkit_sequence) :
               drumkit_sequence'.steps[i] =
                   IF i = last_edit'.n + 1 THEN <<>> ELSE drumkit_sequence.steps[i]
        /\ drumkit_sequence'.timespec = drumkit_sequence.timespec
        /\ drumkit_sequence'.step_base_length = drumkit_sequence.step_base_length
        /\ last_edit'.n >= len(drumkit_sequence) => drumkit_sequence' = drumkit_sequence

\* C23: after clear_step(n) step n has no triggers and every other step is
\* unchanged; for n >= len the call changes nothing.
C23_ClearStep == [][ClearStepOnly]_vars

\* C23 witness: step 0 was cleared and step 1 still holds its two triggers
C23_Witness ==
    /\ last_op = "clear_step"
    /\ last_edit.n = 0
    /\ len(drumkit_sequence) >= 2
    /\ drumkit_sequence.steps[1] = <<>>
    /\ Len(drumkit_sequence.steps[2]) = 2

\* C24: for every DrumkitSequence, after any edits and set_len calls,
\* step(n) returns step information exactly when n < len() and nothing for
\* n >= len().
C24_StepDefinedBelowLen ==
    last_op = "step" =>
        (last_step_length.some <=> last_step_length.n < len(drumkit_sequence))

\* C24 witness: step(16) of a sequence of sixteen steps, the first index
\* past its end, returned nothing
C24_Witness ==
    /\ last_op = "step"
    /\ last_step_length.n = 16
    /\ ~last_step_length.some
    /\ len(drumkit_sequence) = 16

\* the last mix_to_given_spec call, from the state it found: the frames
\* of the buffer, the overflow frames drained into it, the output frames
\* still needed, the source frames pulled for them and the frames the
\* conversions made of those
LastBufferFrames == len_frames(last_group_mix.given, output_spec.channels)

LastDrained ==
    Min(LastBufferFrames, Len(last_group_mix.overflow) \div output_spec.channels)

LastNeedOut == LastBufferFrames - LastDrained

LastNeedSrc ==
    IF ~last_group_mix.done_once /\ group_spec # output_spec
    THEN ceil_div(LastNeedOut * group_spec.samplerate * 3, output_spec.samplerate * 2)
    ELSE ceil_div(LastNeedOut * group_spec.samplerate, output_spec.samplerate)

LastConverted ==
    IF has_rate_conv(group_spec, output_spec)
    THEN (LastNeedSrc * output_spec.samplerate) \div group_spec.samplerate
    ELSE LastNeedSrc

\* the last call was a mix_to_given_spec that pulled frames from sources
\* and returned
LastMixPulled ==
    /\ last_op = "mix_to_given_spec"
    /\ last_group_mix.sources_len > 0
    /\ LastNeedOut > 0
    /\ group_panicked = NoPanic

\* C27: no converted audio is lost in a SourceGroup: every frame pulled from
\* the sources by mix_to_given_spec is either summed into the output of
\* that call or stored in the overflow ring, and the overflow frames are
\* delivered first and in order at the start of the next call's output.
C27_NoConvertedAudioLost ==
    /\ LastMixPulled =>
           LastConverted
               = LastNeedOut + len_frames(post_conv_overflow_buf, output_spec.channels)
    /\ (/\ last_op = "mix_to_given_spec"
        /\ last_group_mix.sources_len > 0
        /\ group_panicked = NoPanic) =>
           /\ \A i \in 1..(LastDrained * output_spec.channels) :
                  last_group_mix.out[i] = last_group_mix.overflow[i]
           /\ LastNeedOut = 0 =>
                  post_conv_overflow_buf
                      = SubSeq(last_group_mix.overflow,
                               LastDrained * output_spec.channels + 1,
                               Len(last_group_mix.overflow))

\* C28: with need_src = ceil(need_out * source_rate / out_rate) (times 1.5 on
\* the first call) and a converter that makes floor(input * out_rate /
\* source_rate) frames, the converted result always has at least need_out
\* frames: the assertion num_converted_frames >= out_spec_frames_needed
\* holds and the overflow count never underflows.
C28_ConvertedCoversNeed ==
    /\ group_panicked # "converted"
    /\ (/\ last_op = "mix_to_given_spec"
        /\ last_group_mix.sources_len > 0
        /\ has_rate_conv(group_spec, output_spec)) =>
           (LastNeedSrc * output_spec.samplerate) \div group_spec.samplerate >= LastNeedOut

\* C28 witness: a later call of a group that halves the rate pulled two
\* source frames for the one output frame needed and converted them to
\* exactly that one frame
C28_Witness ==
    /\ LastMixPulled
    /\ group_spec = AudioSpec(6, 2)
    /\ output_spec = AudioSpec(3, 1)
    /\ last_group_mix.done_once
    /\ LastNeedOut = 1
    /\ LastNeedSrc = 2
    /\ LastConverted = 1
    /\ post_conv_overflow_buf = <<>>

\* C29: the overflow ring never exceeds its capacity of source_channels *
\* source_rate samples: for callback buffers up to the configured buffer
\* size the surplus of every call fits entirely into the vacant space, so
\* push_slice never truncates.
C29_SurplusFits ==
    /\ Len(post_conv_overflow_buf) <= group_buf_len(group_spec)
    /\ (LastMixPulled /\ has_rate_conv(group_spec, output_spec)) =>
           Len(post_conv_overflow_buf)
               = (LastConverted - LastNeedOut) * output_spec.channels

\* s is a prefix of t
IsPrefixOf(s, t) == Len(s) <= Len(t) /\ SubSeq(t, 1, Len(s)) = s

\* C30: across any sequence of mix_to_same_spec calls on a file-decoded
\* source, the samples added to the successive output buffers are exactly
\* the decoder's stream in order, none lost or duplicated; the leftover
\* frames of a packet are kept in the prebuffer and emitted first by the
\* next call; the prebuffer always holds a whole number of frames.
C30_DecoderStreamInOrder ==
    source_kind = "SymphoniaSource" =>
        /\ Len(buffer) % SymChans = 0
        /\ IsPrefixOf(delivered \o buffer, decoded_stream(file))
        /\ (stream_state = "Complete" /\ buffer = <<>>) =>
               delivered = decoded_stream(file)

\* a mix_to_same_spec call on a Streaming file-decoded source completes it
\* exactly when the request is for more frames than the prebuffer and the
\* packets the decoder still yields hold
CompletesWhenStreamRunsOut ==
    (/\ last_op' = "mix"
     /\ source_kind = "SymphoniaSource"
     /\ ~source_dropped
     /\ stream_state = "Streaming") =>
        (stream_state' = "Complete"
             <=> Len(last_mix'.given) > Len(buffer) + Len(decoded_stream(reader)))

\* C31: a file-decoded source becomes Complete during a mix_to_same_spec
\* call exactly when the decoder yields no further packet (end of stream
\* or decode error) while the request still needs frames; a request for
\* more frames than remain completes the source in that same call, and a
\* request the remaining stream satisfies exactly leaves it Streaming.
C31_CompleteWhenStreamRunsOut == [][CompletesWhenStreamRunsOut]_vars

\* C31 witness: the calls asked for exactly the frames of the file; all of
\* them are delivered, no packet is left, and the source is still Streaming
C31_Witness ==
    /\ last_op = "mix"
    /\ source_kind = "SymphoniaSource"
    /\ stream_state = "Streaming"
    /\ reader = <<>>
    /\ buffer = <<>>
    /\ delivered = decoded_stream(file)
    /\ Len(delivered) = 6

\* an update call on a Streaming PulledSource whose producer holds the
\* request receiver: with no request pending it sends one request and sets
\* the flag when the ring is below half, and sends nothing otherwise; a
\* FramesProvided reply clears the flag and no request is sent
UpdateSendsBelowHalf ==
    (/\ last_op' = "update"
     /\ stream_state = "Streaming"
     /\ producer_alive) =>
        /\ (~pull_req_pending /\ 2 * Len(buffer_rx) < bufsize) =>
               /\ pull_request_chan' = Append(pull_request_chan, "PullRequest")
               /\ pull_req_pending'
        /\ (~pull_req_pending /\ 2 * Len(buffer_rx) >= bufsize) =>
               /\ pull_request_chan' = pull_request_chan
               /\ ~pull_req_pending'
        /\ (/\ pull_req_pending
            /\ pull_response_chan # <<>>
            /\ Head(pull_response_chan).kind = "FramesProvided") =>
               /\ pull_request_chan' = pull_request_chan
               /\ ~pull_req_pending'
               /\ pull_response_chan' = Tail(pull_response_chan)

\* C32: update() on a Streaming externally-pushed source with no pending
\* request sends exactly one PullRequest and sets request_pending when the
\* ring occupancy is strictly below half of the ring capacity, and sends
\* nothing when the occupancy is exactly half or more; a FramesProvided
\* reply clears request_pending without sending a new request in the same
\* update().
C32_UpdateSendsBelowHalf == [][UpdateSendsBelowHalf]_vars

\* C32 witness: update was called with no request pending and the ring
\* exactly half full, and sent nothing
C32_Witness ==
    /\ last_op = "update"
    /\ last_update.state = "Streaming"
    /\ ~last_update.pending
    /\ 2 * Len(buffer_rx) = bufsize
    /\ ~pull_req_pending
    /\ pull_request_chan = <<>>
    /\ producer_alive

----------------------------------------------------------------------------
(* The drum render thread serving pull requests *)

\* what the thread pushes for a request: silence when paused, the
\* renderer's output otherwise
PushedFor(n, was_paused) == [i \in 1..n |-> IF was_paused THEN 0 ELSE RenderedValue]

\* a request received without a pending shutdown fixes num_vacant at the
\* ring's vacant length; the thread then appends exactly num_vacant
\* samples to the ring, within its capacity, and replies
\* FramesProvided(num_vacant); no other step adds a reply
ServesPullRequest ==
    /\ (last_op' = "thread_pull" /\ ~shutdown_request /\ pull_request_chan # <<>>) =>
           /\ pull_request_chan' = Tail(pull_request_chan)
           /\ num_vacant' = bufsize - Len(buffer_rx)
           /\ pull_response_chan' = pull_response_chan
           /\ pc' = "push"
    /\ last_op' = "thread_push" =>
           /\ buffer_rx' = buffer_rx \o PushedFor(num_vacant, paused)
           /\ Len(buffer_rx') <= bufsize
           /\ ~source_dropped =>
                  pull_response_chan' =
                      Append(pull_response_chan,
                             [kind |-> "FramesProvided", frames |-> num_vacant])
           /\ pc' # "push"
    /\ last_op' \notin {"thread_pull", "thread_push"} =>
           Len(pull_response_chan') <= Len(pull_response_chan)

----------------------------------------------------------------------------
(* Whole frames in the ring of the PulledSource *)

\* the ring holds a whole number of frames when mix_to_same_spec starts
WholeFramesAtMix ==
    (last_op' = "mix" /\ source_kind = "PulledSource") =>
        Len(buffer_rx) % PulledChans = 0

\* C35: the PulledSource ring holds a whole number of frames whenever the
\* consumer mixes: the occupied length is a multiple of the channel count
\* at the start of every mix_to_same_spec call, so the debug assertion on
\* it holds.
C35_WholeFramesAtMix == [][WholeFramesAtMix]_vars

\* C35 witness: mix_to_same_spec took a frame from the ring while the
\* thread was between reading the vacant length and pushing
C35_Witness ==
    /\ last_op = "mix"
    /\ source_kind = "PulledSource"
    /\ pc = "push"
    /\ num_vacant = 6
    /\ last_mix.out # last_mix.given
    /\ buffer_rx = <<>>

----------------------------------------------------------------------------
(* The drum render thread and its renderer: Play, Pause and Stop          *)
(* The thread owns the renderer, so one pass of its loop applies a        *)
(* control message or serves a pull request without interference.         *)

\* the control messages that start and stop playback
PlaybackMessages == {"Play", "Pause", "Stop"}

\* a control match that leaves the renderer alone on Stop
thread_control_renderer_kept(r, message) == r

\* what the control match does to rts.renderer
thread_control_renderer(r, message) ==
    IF message = "Stop" THEN reset_sequence(r) ELSE r

InitDrumThread ==
    /\ MixerIdle
    /\ SequenceIdle
    /\ ExtIdle
    /\ SampleSetIdle
    /\ RendererNew
    /\ ExportIdle
    /\ last_op = "new"
    /\ SourceIdle
    /\ GroupIdle

\* the thread receives Play, Pause or Stop
DrumThreadControl(message) ==
    /\ panicked = NoPanic
    /\ num_ops < MaxOps
    /\ num_ops' = num_ops + 1
    /\ paused' = control_match(FALSE, paused, message).paused
    /\ Becomes(thread_control_renderer(self, message))
    /\ last_op' = message
    /\ UNCHANGED <<panicked, render_ret, log_dropped, next_table_id, last_event_step,
                   frames_since_init, events_since_init, retimed_since_init>>
    /\ UNCHANGED <<gvars, mvars, qvars, xvars, source_kind, stream_state, source_dropped,
                   last_mix, last_update, pullvars, symvars, pc, shutdown_request,
                   shutdown_age, warned, num_vacant, control_chan, control_tx_alive>>

\* the thread serves a pull request for vacant samples while playing
DrumThreadRender(vacant) ==
    /\ ~paused
    /\ Render(vacant)

\* the thread serves a pull request while paused: the buffer is zeroed
DrumThreadSilence ==
    /\ paused
    /\ panicked = NoPanic
    /\ num_ops < MaxOps
    /\ num_ops' = num_ops + 1
    /\ last_op' = "silence"
    /\ UNCHANGED <<sequence, samples, samples_current_generation, sample_loaders,
                   current_step, step_frames_remain, active_sounds, mixbuffer,
                   panicked, render_ret, log_dropped, next_table_id,
                   last_event_step, frames_since_init, events_since_init,
                   retimed_since_init>>
    /\ UNCHANGED <<svars, gvars, mvars, qvars, xvars>>

NextDrumThread ==
    \/ \E message \in PlaybackMessages : DrumThreadControl(message)
    \/ \E vacant \in BufferLens : DrumThreadRender(vacant)
    \/ DrumThreadSilence

SpecDrumThread == InitDrumThread /\ [][NextDrumThread]_vars

\* Stop pauses and resets the sequence, so that the next render call
\* starts with the event of step 0 at frame 0; Pause and Play leave the
\* renderer as it is, as does a pull request served while paused; the
\* renderer advances only while not paused
StopResetsPauseHolds ==
    /\ last_op' = "Stop" =>
           /\ paused'
           /\ current_step' = None
           /\ step_frames_remain' = None
    /\ last_op' = "Pause" => paused' /\ self' = self
    /\ last_op' = "Play" => ~paused' /\ self' = self
    /\ last_op' = "silence" => paused /\ paused' /\ self' = self
    /\ last_op' = "render" =>
           /\ ~paused
           /\ (current_step = None /\ panicked' = NoPanic) =>
                  /\ render_ret'.events # <<>>
                  /\ render_ret'.events[1].step = 0
                  /\ render_ret'.events[1].time = 0

\* C34: in the drum render thread, Stop pauses playback and resets the
\* sequence so that the first step played after a later Play is step 0,
\* whereas between Pause and the next Play the renderer is not advanced
\* (pull requests are served with silence), so playback resumes at the
\* position where it was paused; the thread starts in the paused state.
C34_StopResetsPauseHolds ==
    /\ (last_op = "new" => paused)
    /\ [][StopResetsPauseHolds]_vars

\* C34 witness: playback that had gone past step 0 was stopped: the thread
\* is paused and the renderer has no position
C34_Witness ==
    /\ last_op = "Stop"
    /\ paused
    /\ current_step = None
    /\ frames_since_init >= 4
    /\ last_event_step >= 1

----------------------------------------------------------------------------
(* The sample tables and the active sounds of the renderer *)

\* every active sound is within the tables: its generation is not newer
\* than the current one, its label is in the table of its generation, its
\* length is that of the sample in frames, and its offset is within it
SoundsInRange ==
    \A i \in 1..Len(active_sounds) :
        LET s == active_sounds[i]
        IN  /\ s.samples_generation >= 0
            /\ s.samples_generation <= samples_current_generation
            /\ s.label \in DOMAIN samples[s.samples_generation + 1].data
            /\ s.num_frames = samples[s.samples_generation + 1].data[s.label] \div 2
            /\ s.offset_in_frames >= 0
            /\ s.offset_in_frames <= s.num_frames

\* C36: in every reachable renderer state, samples_current_generation
\* equals samples.len() - 1 (new voices always use the newest generation),
\* and every ActiveSound has samples_generation <= samples_current_generation,
\* its label present in the table of that generation, num_frames equal to
\* half that sample's length and offset_in_frames <= num_frames, so the
\* table lookups and slices in render are always in range.
C36_SoundsInRange ==
    /\ samples_current_generation = Len(samples) - 1
    /\ SoundsInRange

\* C36 witness: a render call retired a generation while a sound of an
\* older generation was part-way through its sample and a sound of the
\* current generation was playing too
C36_Witness ==
    /\ last_op = "render"
    /\ panicked = NoPanic
    /\ log_dropped > 0
    /\ \E i, j \in 1..Len(active_sounds) :
           /\ active_sounds[i].samples_generation < samples_current_generation
           /\ active_sounds[i].offset_in_frames > 0
           /\ active_sounds[i].offset_in_frames < active_sounds[i].num_frames
           /\ active_sounds[j].samples_generation = samples_current_generation

----------------------------------------------------------------------------
(* Rendering in one call and in several *)

RECURSIVE render_in_chunks(_, _, _)
\* count render calls of chunk_len f32 samples each, one after the other.
\* acc: the renderer, the panic if any, the events of the calls so far with
\* their times counted from the first call, and the frames rendered so far
render_in_chunks(acc, chunk_len, count) ==
    IF count = 0 \/ acc.panic # NoPanic THEN acc
    ELSE LET res == render(acc.r, chunk_len)
         IN  render_in_chunks(
                 [r |-> res.r,
                  panic |-> res.panic,
                  events |-> acc.events \o
                             [i \in 1..Len(res.ret.events) |->
                                 [res.ret.events[i] EXCEPT !.time = @ + acc.frames]],
                  frames |-> acc.frames + chunk_len \div 2],
                 chunk_len, count - 1)

\* the shortest and the longest buffer of the model, and how many of the
\* former make up the latter
ChunkLen == CHOOSE n \in BufferLens : \A m \in BufferLens : n <= m

WholeLen == CHOOSE n \in BufferLens : \A m \in BufferLens : m <= n

\* one render call of WholeLen samples on the renderer as it is
RenderedWhole == render(self, WholeLen)

\* WholeLen \div ChunkLen render calls of ChunkLen samples on the renderer
\* as it is
RenderedInChunks ==
    render_in_chunks([r |-> self, panic |-> NoPanic, events |-> <<>>, frames |-> 0],
                     ChunkLen, WholeLen \div ChunkLen)

\* both ways of rendering end alike: both return or both panic, and when
\* they return, the events and the renderer are the same
SameOutcome ==
    /\ (RenderedWhole.panic = NoPanic) <=> (RenderedInChunks.panic = NoPanic)
    /\ RenderedWhole.panic = NoPanic =>
           /\ RenderedWhole.ret.events = RenderedInChunks.events
           /\ RenderedWhole.r = RenderedInChunks.r

\* C37: rendering is independent of how the output is chunked: rendering
\* N frames in one render call yields the same sequence of step events
\* (step indices and frame offsets at which steps begin) and the same
\* resulting renderer state (current_step, step_frames_remain, active
\* sounds and their offsets) as rendering the same N frames in any series
\* of smaller render calls, when no control operation or loader completion
\* intervenes.
C37_ChunkingIndependent == panicked = NoPanic => SameOutcome

\* the same for the renderers whose timing was not changed since the
\* sequence was initialised
ChunkingIndependentUnlessRetimed ==
    (panicked = NoPanic /\ ~(current_step # None /\ retimed_since_init)) => SameOutcome

----------------------------------------------------------------------------
(* The length of a DrumkitSequence *)

\* C38: every DrumkitSequence has at least one step: len() >= 1 holds
\* after construction with any valid TimeSpec and step base length and
\* after any sequence of set_len, clear and step-edit operations, so that
\* step(0) is always defined for the renderer.
C38_AtLeastOneStep == len(drumkit_sequence) >= 1

\* no operation on a sequence that has a step leaves it without one
KeepsAStep == len(drumkit_sequence) >= 1 => len(drumkit_sequence') >= 1

OperationsKeepAStep == [][KeepsAStep]_vars

----------------------------------------------------------------------------
(* Commands in flight when the command channel is disconnected *)

\* C39: no command is lost on channel disconnect: every message sent on
\* the mixer's command channel before the last sender is dropped is
\* dispatched by the mixer before it shuts down, including messages still
\* queued when the disconnect is detected.
C39_NoCommandLost ==
    (mixer_pc = "exited" /\ loop_exit = "Disconnected") => applied = sent

\* a disconnect found by the first receive of recv_all loses nothing:
\* the channel hands out what is queued before it reports the disconnect
DisconnectAtTimeoutLosesNothing ==
    (mixer_pc = "recv_timeout" /\ last_op' = "recv_timeout" /\ loop_exit' = "Disconnected") =>
        applied = sent

DisconnectAtTimeoutIsLossless == [][DisconnectAtTimeoutLosesNothing]_vars

----------------------------------------------------------------------------
(* libasampo/src/samplesets/export.rs: ExportJob::perform                 *)
(* The caller's thread creates the target directory, hands the export of  *)
(* the samples to the rayon pool and polls the progress counter and the   *)
(* error channel; the pool exports the samples in parallel.               *)

\* an ExportJobMessage
JobMessage(kind, n) == [kind |-> kind, n |-> n]

\* send_or_log!(tx, msg)
send_or_log(chan, msg) == Append(chan, msg)

\* a sample has failed in the closure: try_for_each takes up no new sample
short_circuited == \E s \in export_set : outcome[s] = "Err"

\* a sample has entered the ProgressAdaptor or the closure
entered(s) == s \in items_processed \/ outcome[s] # "none"

InitExport ==
    /\ RendererNew
    /\ SourceIdle
    /\ GroupIdle
    /\ MixerIdle
    /\ SequenceIdle
    /\ ExtIdle
    /\ SampleSetIdle
    /\ last_op = "new"
    /\ export_set \in SUBSET Samples
    /\ export_fails \in SUBSET export_set
    /\ create_dirs_ok \in BOOLEAN
    /\ perform_pc = "create_dirs"
    /\ worker_pc = "none"
    /\ items_processed = {}
    /\ outcome = [s \in Samples |-> "none"]
    /\ rayon_rx = <<>>
    /\ rayon_tx_alive = FALSE
    /\ prev_completed = 0
    /\ job_tx = <<>>

\* perform: io.create_dirs(target_path), then rayon::spawn
PerformCreatesDirs ==
    /\ perform_pc = "create_dirs"
    /\ IF create_dirs_ok
       THEN /\ perform_pc' = "progress"
            /\ worker_pc' = "running"
            /\ rayon_tx_alive' = TRUE
            /\ UNCHANGED job_tx
       ELSE /\ job_tx' = send_or_log(job_tx, JobMessage("Error", 0))
            /\ perform_pc' = "returned"
            /\ UNCHANGED <<worker_pc, rayon_tx_alive>>
    /\ last_op' = "create_dirs"
    /\ UNCHANGED <<rvars, svars, gvars, mvars, qvars, ext_in, ext_out, ext_last, sample_set,
                   last_result, export_set, export_fails, create_dirs_ok, items_processed,
                   outcome, rayon_rx, prev_completed>>

\* the ProgressAdaptor counts a sample that passes through it.  The count
\* and the closure's run on the same sample happen in the one order or the
\* other (the adaptor is of the rayon_progress crate); a sample that has
\* not entered when another has failed is not taken up
WorkerCounts(s) ==
    /\ worker_pc = "running"
    /\ s \in export_set \ items_processed
    /\ entered(s) \/ ~short_circuited
    /\ items_processed' = items_processed \cup {s}
    /\ last_op' = "count"
    /\ UNCHANGED <<rvars, svars, gvars, mvars, qvars, ext_in, ext_out, ext_last, sample_set,
                   last_result, export_set, export_fails, create_dirs_ok, perform_pc, worker_pc,
                   outcome, rayon_rx, rayon_tx_alive, prev_completed, job_tx>>

\* the closure of try_for_each runs on a sample
WorkerExports(s) ==
    /\ worker_pc = "running"
    /\ s \in export_set
    /\ outcome[s] = "none"
    /\ entered(s) \/ ~short_circuited
    /\ outcome' = [outcome EXCEPT ![s] = IF s \in export_fails THEN "Err" ELSE "Ok"]
    /\ last_op' = "export"
    /\ UNCHANGED <<rvars, svars, gvars, mvars, qvars, ext_in, ext_out, ext_last, sample_set,
                   last_result, export_set, export_fails, create_dirs_ok, perform_pc, worker_pc,
                   items_processed, rayon_rx, rayon_tx_alive, prev_completed, job_tx>>

\* try_for_each returns: match result { Err(e) => send_or_log!(rayon_tx, e) },
\* and the closure ends, dropping rayon_tx
WorkerReturns ==
    /\ worker_pc = "running"
    /\ \A s \in export_set : entered(s) => (s \in items_processed /\ outcome[s] # "none")
    /\ short_circuited \/ \A s \in export_set : entered(s)
    /\ rayon_rx' = IF short_circuited THEN send_or_log(rayon_rx, "Err") ELSE rayon_rx
    /\ rayon_tx_alive' = FALSE
    /\ worker_pc' = "done"
    /\ last_op' = "worker_returns"
    /\ UNCHANGED <<rvars, svars, gvars, mvars, qvars, ext_in, ext_out, ext_last, sample_set,
                   last_result, export_set, export_fails, create_dirs_ok, perform_pc,
                   items_processed, outcome, prev_completed, job_tx>>

\* the polling loop: progress.get(), ItemsCompleted when it has changed,
\* break when every sample is counted
PerformReadsProgress ==
    /\ perform_pc = "progress"
    /\ LET completed == Cardinality(items_processed)
       IN  /\ prev_completed' = completed
           /\ job_tx' = IF completed # prev_completed
                        THEN send_or_log(job_tx, JobMessage("ItemsCompleted", completed))
                        ELSE job_tx
           /\ perform_pc' = IF completed >= Cardinality(export_set)
                            THEN "finished" ELSE "try_recv"
    /\ last_op' = "progress"
    /\ UNCHANGED <<rvars, svars, gvars, mvars, qvars, ext_in, ext_out, ext_last, sample_set,
                   last_result, export_set, export_fails, create_dirs_ok, worker_pc,
                   items_processed, outcome, rayon_rx, rayon_tx_alive>>

\* the polling loop: match rayon_rx.try_recv()
PerformTryRecv ==
    /\ perform_pc = "try_recv"
    /\ IF rayon_rx # <<>>
       THEN /\ rayon_rx' = Tail(rayon_rx)
            /\ job_tx' = send_or_log(job_tx, JobMessage("Error", 0))
            /\ perform_pc' = "returned"
       ELSE /\ perform_pc' = IF rayon_tx_alive THEN "progress" ELSE "finished"
            /\ UNCHANGED <<rayon_rx, job_tx>>
    /\ last_op' = "try_recv_error"
    /\ UNCHANGED <<rvars, svars, gvars, mvars, qvars, ext_in, ext_out, ext_last, sample_set,
                   last_result, export_set, export_fails, create_dirs_ok, worker_pc,
                   items_processed, outcome, rayon_tx_alive, prev_completed>>

\* after the loop: send_or_log!(tx, ExportJobMessage::Finished)
PerformFinishes ==
    /\ perform_pc = "finished"
    /\ job_tx' = send_or_log(job_tx, JobMessage("Finished", 0))
    /\ perform_pc' = "returned"
    /\ last_op' = "finished"
    /\ UNCHANGED <<rvars, svars, gvars, mvars, qvars, ext_in, ext_out, ext_last, sample_set,
                   last_result, export_set, export_fails, create_dirs_ok, worker_pc,
                   items_processed, outcome, rayon_rx, rayon_tx_alive, prev_completed>>

NextExport ==
    \/ PerformCreatesDirs
    \/ \E s \in Samples : WorkerCounts(s)
    \/ \E s \in Samples : WorkerExports(s)
    \/ WorkerReturns
    \/ PerformReadsProgress
    \/ PerformTryRecv
    \/ PerformFinishes

SpecExport == InitExport /\ [][NextExport]_vars

\* the terminal messages sent so far
TerminalsSent ==
    {i \in 1..Len(job_tx) : job_tx[i].kind \in {"Error", "Finished"}}

\* Finished was sent
FinishedSent == \E i \in 1..Len(job_tx) : job_tx[i].kind = "Finished"

\* exactly one terminal message, the last message, once perform has returned
OneTerminalMessage ==
    /\ Cardinality(TerminalsSent) <= 1
    /\ perform_pc = "returned" => TerminalsSent = {Len(job_tx)}
    /\ perform_pc # "returned" => TerminalsSent = {}

\* C40: ExportJob::perform with a progress channel sends exactly one
\* terminal message: Error if exporting any sample failed, and Finished
\* only if every sample was exported successfully; in no interleaving of
\* the export worker and the polling loop is Finished sent for a job in
\* which a sample failed.
C40_FinishedOnlyOnSuccess ==
    /\ OneTerminalMessage
    /\ FinishedSent => \A s \in export_set : outcome[s] # "Err"
    /\ (FinishedSent /\ worker_pc = "done") => \A s \in export_set : outcome[s] = "Ok"

====
